---------------------------- MODULE Spec2Model ----------------------------
(***************************************************************************)
(* Model of the pocket (cavity) detection service of sdf-hints:            *)
(*   backend/sdf_labeler_api/services/pocket_service.py  (PocketService)   *)
(*   backend/sdf_labeler_api/models/pockets.py           (VoxelState, ...) *)
(*   backend/sdf_labeler_api/services/project_service.py (delete)          *)
(*   backend/sdf_labeler_api/services/pointcloud_service.py (upload)       *)
(*                                                                         *)
(* The pocket_service fixture and the calls of tests/test_pocket_service.py *)
(* give the settings and the arguments of the single-call specifications.  *)
(*                                                                         *)
(* Eight specifications share the module:                                  *)
(*   Spec      the persisted pocket cache of the projects (analysis.json   *)
(*             and grid.npz), one writer task at a time and readers that   *)
(*             run between the writer's file-system steps;                 *)
(*   SpecGrid  the pure voxel transforms _flood_fill_outside and           *)
(*             _label_pockets applied to a bounded family of grids;        *)
(*   SpecOctree     the first upload into a project: points.npz, the       *)
(*             octree build followed call by call, the tiles, the          *)
(*             metadata file, and get_tile;                                *)
(*   SpecRebuild    the same actions with up to MaxUploads uploads into    *)
(*             the project;                                                *)
(*   SpecVoxelSize  compute_voxel_resolution applied to a bounded family   *)
(*             of boxes and targets;                                       *)
(*   SpecBuildGrid  _build_occupancy_grid called without and with          *)
(*             dilation on the same arguments;                             *)
(*   SpecExtract    _extract_pocket_info applied to a bounded family of    *)
(*             labeled arrays;                                             *)
(*   SpecAnalyze    the stages of one analyze_pockets call, from the       *)
(*             bounds to the returned PocketAnalysis.                      *)
(***************************************************************************)
EXTENDS Integers, Sequences, FiniteSets, TLC

(***************************************************************************)
(* Bounds of the model.                                                    *)
(***************************************************************************)
\* SpecGrid draws grids of shape NX x 3 x 3 (a 3 x 3 cross-section is the
\* smallest with voxels off the outer faces)
NX == 4
\* at most MaxFlip voxels of a drawn grid differ from its background state,
\* and _label_pockets is applied to grids with at most MaxFlip EMPTY voxels
MaxFlip == 3

(***************************************************************************)
(* models/pockets.py: class VoxelState(IntEnum)                            *)
(***************************************************************************)
UNKNOWN == 0
EMPTY == 1
OCCUPIED == 2
OUTSIDE == 3
POCKET == 4

(***************************************************************************)
(* Voxel grids: a numpy uint8 array of shape res, as a function of the     *)
(* index triples (0-based, as numpy indexes them).                         *)
(***************************************************************************)
Voxels(res) ==
    { <<i, j, k>> : i \in 0..(res[1] - 1), j \in 0..(res[2] - 1), k \in 0..(res[3] - 1) }

\* ndimage.generate_binary_structure(3, 1): the 6 face neighbours (in-grid)
Neighbors6(v, res) ==
    { w \in { <<v[1] - 1, v[2], v[3]>>, <<v[1] + 1, v[2], v[3]>>,
              <<v[1], v[2] - 1, v[3]>>, <<v[1], v[2] + 1, v[3]>>,
              <<v[1], v[2], v[3] - 1>>, <<v[1], v[2], v[3] + 1>> } :
        /\ w[1] \in 0..(res[1] - 1)
        /\ w[2] \in 0..(res[2] - 1)
        /\ w[3] \in 0..(res[3] - 1) }

\* boundary_mask of _flood_fill_outside: index 0 or -1 on some axis
BoundaryMask(res) ==
    { v \in Voxels(res) :
        \/ v[1] = 0 \/ v[1] = res[1] - 1
        \/ v[2] = 0 \/ v[2] = res[2] - 1
        \/ v[3] = 0 \/ v[3] = res[3] - 1 }

WithState(grid, s) == { v \in Voxels(grid.res) : grid.cells[v] = s }

\* one pass of ndimage.binary_dilation(input, structure, mask): inside the
\* mask a voxel is set when it or a face neighbour is set; outside the mask
\* the input value is kept
BinaryDilationStepDiagonal(input, mask, res) ==
    { v \in Voxels(res) :
        IF v \in mask
        THEN \E n \in input : \A a \in 1..3 : n[a] - v[a] \in {-1, 0, 1}
        ELSE v \in input }

BinaryDilationStep(input, mask, res) ==
    { v \in Voxels(res) :
        IF v \in mask
        THEN v \in input \/ \E n \in Neighbors6(v, res) : n \in input
        ELSE v \in input }

\* ndimage.binary_dilation(..., iterations=-1): repeat until no change
RECURSIVE BinaryDilationUntilStable(_, _, _)
BinaryDilationUntilStable(input, mask, res) ==
    LET next == BinaryDilationStep(input, mask, res)
    IN  IF next = input THEN input ELSE BinaryDilationUntilStable(next, mask, res)

\* PocketService._flood_fill_outside
FloodFillLeaky(grid) ==
    LET res == grid.res
        seed == BoundaryMask(res) \cap WithState(grid, EMPTY)
        outside == BinaryDilationUntilStable(seed, Voxels(res), res)
    IN  [ res |-> res,
          cells |-> [ v \in Voxels(res) |-> IF v \in outside THEN OUTSIDE ELSE grid.cells[v] ] ]

FloodFillOutside(grid) ==
    LET res == grid.res
        seed == BoundaryMask(res) \cap WithState(grid, EMPTY)
        traversable == WithState(grid, EMPTY)
        outside == BinaryDilationUntilStable(seed, traversable, res)
    IN  [ res |-> res,
          cells |-> [ v \in Voxels(res) |-> IF v \in outside THEN OUTSIDE ELSE grid.cells[v] ] ]

\* raster (C) order of the index triples: the order ndimage.label scans in
RasterBefore(v, w) ==
    \/ v[1] < w[1]
    \/ v[1] = w[1] /\ v[2] < w[2]
    \/ v[1] = w[1] /\ v[2] = w[2] /\ v[3] < w[3]

RasterFirst(S) == CHOOSE v \in S : \A w \in S : w = v \/ RasterBefore(v, w)

\* ndimage.label(mask, structure): the components of the mask, numbered from
\* 1 in the order the raster scan first meets them; every other voxel 0
RECURSIVE LabelFrom(_, _, _, _)
LabelFrom(rest, res, n, acc) ==
    IF rest = {} THEN [ labeled |-> acc, num_features |-> n ]
    ELSE LET first == RasterFirst(rest)
             comp == BinaryDilationUntilStable({first}, rest, res)
         IN  LabelFrom(rest \ comp, res, n + 1,
                       [ v \in Voxels(res) |-> IF v \in comp THEN n + 1 ELSE acc[v] ])

NdimageLabel(mask, res) == LabelFrom(mask, res, 0, [ v \in Voxels(res) |-> 0 ])

\* PocketService._label_pockets
LabelPocketsNonOccupied(grid) ==
    NdimageLabel(Voxels(grid.res) \ WithState(grid, OCCUPIED), grid.res)

LabelPockets(grid) == NdimageLabel(WithState(grid, EMPTY), grid.res)


(***************************************************************************)
(* Settings read by PocketService.  config.py of this snapshot declares    *)
(* none of them; the values are the small ones the model is run with       *)
(* (tests/test_pocket_service.py sets 32, 4 and 2 for the first, fourth    *)
(* and fifth).  Real numbers are exact rationals <<numerator, denominator>>*)
(* with a positive denominator.                                            *)
(***************************************************************************)
pocket_voxel_target == 4
pocket_min_voxel_size == <<1, 2>>
pocket_max_voxels_per_axis == 4
pocket_min_volume_voxels == 2
pocket_occupancy_dilation == 0

\* PocketService.settings (self.settings = settings) with these values
DefaultSettings ==
    [ pocket_voxel_target |-> pocket_voxel_target,
      pocket_min_voxel_size |-> pocket_min_voxel_size,
      pocket_max_voxels_per_axis |-> pocket_max_voxels_per_axis,
      pocket_min_volume_voxels |-> pocket_min_volume_voxels,
      pocket_occupancy_dilation |-> pocket_occupancy_dilation ]

Axes == 1..3

RatLess(a, b) == a[1] * b[2] < b[1] * a[2]
RatMax(a, b) == IF RatLess(a, b) THEN b ELSE a
\* ceil(n / d) and floor(n / d) for n >= 0, d > 0
CeilDiv(n, d) == (n + d - 1) \div d
FloorDiv(n, d) == n \div d
Min2(a, b) == IF a < b THEN a ELSE b
Max2(a, b) == IF a < b THEN b ELSE a

SetMin(S) == CHOOSE x \in S : \A y \in S : x <= y
SetMax(S) == CHOOSE x \in S : \A y \in S : y <= x

\* the sum of the coordinates a of the triples of S, taken value by value
RECURSIVE WeightedSum(_, _, _)
WeightedSum(values, S, a) ==
    IF values = {} THEN 0
    ELSE LET c == CHOOSE x \in values : TRUE
         IN  c * Cardinality({ v \in S : v[a] = c }) + WeightedSum(values \ {c}, S, a)

SetSum(S, a) == WeightedSum({ v[a] : v \in S }, S, a)

\* xyz.min(axis=0), xyz.max(axis=0)
BoundsLow(xyz) == [ a \in Axes |-> SetMin({ pt[a] : pt \in xyz }) ]
BoundsHigh(xyz) == [ a \in Axes |-> SetMax({ pt[a] : pt \in xyz }) ]

\* PocketService.compute_voxel_resolution of a service with the given
\* settings; target_voxels 0 stands for None (both are falsy in
\* `target_voxels or self.settings.pocket_voxel_target`)
ComputeVoxelResolutionWith(settings, bounds_low, bounds_high, target_voxels) ==
    LET target == IF target_voxels = 0 THEN settings.pocket_voxel_target ELSE target_voxels
        longest_axis == SetMax({ bounds_high[a] - bounds_low[a] : a \in Axes })
    IN  RatMax(<<longest_axis, target>>, settings.pocket_min_voxel_size)

\* PocketService.compute_voxel_resolution with the default settings
ComputeVoxelResolutionNoMinimum(bounds_low, bounds_high, target_voxels) ==
    LET target == IF target_voxels = 0 THEN pocket_voxel_target ELSE target_voxels
        longest_axis == SetMax({ bounds_high[a] - bounds_low[a] : a \in Axes })
    IN  <<longest_axis, target>>

ComputeVoxelResolution(bounds_low, bounds_high, target_voxels) ==
    ComputeVoxelResolutionWith(DefaultSettings, bounds_low, bounds_high, target_voxels)

\* resolution = minimum(ceil(extent / voxel_size), max_res)
GridResolutionWith(settings, bounds_low, bounds_high, voxel_size) ==
    [ a \in Axes |->
        Min2(CeilDiv((bounds_high[a] - bounds_low[a]) * voxel_size[2], voxel_size[1]),
             settings.pocket_max_voxels_per_axis) ]

GridResolution(bounds_low, bounds_high, voxel_size) ==
    GridResolutionWith(DefaultSettings, bounds_low, bounds_high, voxel_size)

\* ((xyz - bounds_low) / voxel_size).astype(int), clipped to 0..resolution-1
\* (np.clip with an upper limit of -1 gives -1 on an axis of resolution 0)
VoxelIndexRounded(pt, bounds_low, voxel_size, resolution) ==
    [ a \in Axes |->
        Min2(Max2(FloorDiv(2 * (pt[a] - bounds_low[a]) * voxel_size[2] + voxel_size[1],
                           2 * voxel_size[1]), 0),
             resolution[a] - 1) ]

VoxelIndex(pt, bounds_low, voxel_size, resolution) ==
    [ a \in Axes |->
        Min2(Max2(FloorDiv((pt[a] - bounds_low[a]) * voxel_size[2], voxel_size[1]), 0),
             resolution[a] - 1) ]

\* ndimage.binary_dilation(mask, structure, iterations=n) without a mask
BinaryDilationOnce(input, res, iterations) ==
    IF iterations = 0 THEN input ELSE BinaryDilationStep(input, Voxels(res), res)

RECURSIVE BinaryDilation(_, _, _)
BinaryDilation(input, res, iterations) ==
    IF iterations = 0 THEN input
    ELSE BinaryDilation(BinaryDilationStep(input, Voxels(res), res), res, iterations - 1)

\* the grid shape has an axis of length 0: indexing it with the binned
\* points raises IndexError
IndexErrorShape(res) == \E a \in Axes : res[a] = 0

\* PocketService._build_occupancy_grid (for a shape without an empty axis)
\* of a service with the given settings, called with a dilation
BuildOccupancyGridWith(settings, xyz, bounds_low, bounds_high, voxel_size, dilation) ==
    LET res == GridResolutionWith(settings, bounds_low, bounds_high, voxel_size)
        binned == { VoxelIndex(pt, bounds_low, voxel_size, res) : pt \in xyz }
        marked == { <<b[1], b[2], b[3]>> : b \in binned }
        occupied == IF dilation = 0 THEN marked ELSE BinaryDilation(marked, res, dilation)
    IN  [ res |-> <<res[1], res[2], res[3]>>,
          cells |-> [ v \in Voxels(res) |-> IF v \in occupied THEN OCCUPIED ELSE EMPTY ] ]

BuildOccupancyGrid(xyz, bounds_low, bounds_high, voxel_size, dilation) ==
    BuildOccupancyGridWith(DefaultSettings, xyz, bounds_low, bounds_high, voxel_size, dilation)

\* PocketService._extract_pocket_info; the label must occur in labeled
ExtractPocketInfoMaxIndex(labeled, res, pocket_id, voxel_size, bounds_low) ==
    LET voxel_coords == { v \in Voxels(res) : labeled[v] = pocket_id }
        n == Cardinality(voxel_coords)
        vn == voxel_size[1]
        vd == voxel_size[2]
    IN  [ pocket_id |-> pocket_id,
          voxel_count |-> n,
          centroid |-> [ a \in Axes |->
              << 2 * vn * SetSum(voxel_coords, a) + n * vn + 2 * n * vd * bounds_low[a],
                 2 * n * vd >> ],
          bounds_low |-> [ a \in Axes |->
              << SetMin({ v[a] : v \in voxel_coords }) * vn + bounds_low[a] * vd, vd >> ],
          bounds_high |-> [ a \in Axes |->
              << SetMax({ v[a] : v \in voxel_coords }) * vn + bounds_low[a] * vd, vd >> ],
          volume_estimate |-> << n * vn * vn * vn, vd * vd * vd >>,
          is_toggled_solid |-> FALSE ]

ExtractPocketInfo(labeled, res, pocket_id, voxel_size, bounds_low) ==
    LET voxel_coords == { v \in Voxels(res) : labeled[v] = pocket_id }
        n == Cardinality(voxel_coords)
        vn == voxel_size[1]
        vd == voxel_size[2]
    IN  [ pocket_id |-> pocket_id,
          voxel_count |-> n,
          centroid |-> [ a \in Axes |->
              << 2 * vn * SetSum(voxel_coords, a) + n * vn + 2 * n * vd * bounds_low[a],
                 2 * n * vd >> ],
          bounds_low |-> [ a \in Axes |->
              << SetMin({ v[a] : v \in voxel_coords }) * vn + bounds_low[a] * vd, vd >> ],
          bounds_high |-> [ a \in Axes |->
              << (SetMax({ v[a] : v \in voxel_coords }) + 1) * vn + bounds_low[a] * vd, vd >> ],
          volume_estimate |-> << n * vn * vn * vn, vd * vd * vd >>,
          is_toggled_solid |-> FALSE ]

\* the loop of analyze_pockets over range(1, num_pockets + 1), for a service
\* with the given settings
RECURSIVE SignificantPocketsWith(_, _, _, _, _, _, _)
SignificantPocketsWith(settings, labeled, res, pocket_id, num_pockets, voxel_size, bounds_low) ==
    IF pocket_id > num_pockets THEN <<>>
    ELSE LET voxel_count == Cardinality({ v \in Voxels(res) : labeled[v] = pocket_id })
             rest == SignificantPocketsWith(settings, labeled, res, pocket_id + 1,
                                            num_pockets, voxel_size, bounds_low)
         IN  IF voxel_count >= settings.pocket_min_volume_voxels
             THEN <<ExtractPocketInfo(labeled, res, pocket_id, voxel_size, bounds_low)>> \o rest
             ELSE rest

\* the same loop with the default settings
RECURSIVE SignificantPocketsUnfiltered(_, _, _, _, _, _)
SignificantPocketsUnfiltered(labeled, res, pocket_id, num_pockets, voxel_size, bounds_low) ==
    IF pocket_id > num_pockets THEN <<>>
    ELSE <<ExtractPocketInfo(labeled, res, pocket_id, voxel_size, bounds_low)>> \o
         SignificantPocketsUnfiltered(labeled, res, pocket_id + 1, num_pockets,
                                      voxel_size, bounds_low)

SignificantPockets(labeled, res, pocket_id, num_pockets, voxel_size, bounds_low) ==
    SignificantPocketsWith(DefaultSettings, labeled, res, pocket_id, num_pockets,
                           voxel_size, bounds_low)

\* analyze_pockets from "Compute bounds" to the PocketAnalysis and the
\* arrays handed to _save_analysis; now is datetime.now(timezone.utc)
RunPipelineTimeSeeded(xyz, voxel_target, now) ==
    LET bounds_low == BoundsLow(xyz)
        bounds_high == BoundsHigh(xyz)
        voxel_size == ComputeVoxelResolution(bounds_low, bounds_high, voxel_target)
        built == BuildOccupancyGrid(xyz, bounds_low, bounds_high, voxel_size,
                                    pocket_occupancy_dilation)
        grid == FloodFillOutside(built)
        lab == LabelPockets(grid)
        pockets == IF now = 1
                   THEN SignificantPockets(lab.labeled, grid.res, 1, lab.num_features,
                                           voxel_size, bounds_low)
                   ELSE SignificantPocketsUnfiltered(lab.labeled, grid.res, 1,
                                                     lab.num_features, voxel_size, bounds_low)
    IN  [ analysis |->
            [ grid_metadata |->
                [ resolution |-> grid.res,
                  voxel_size |-> voxel_size,
                  bounds_low |-> bounds_low,
                  bounds_high |-> bounds_high,
                  occupied_count |-> Cardinality(WithState(grid, OCCUPIED)),
                  empty_count |-> Cardinality(WithState(grid, EMPTY)),
                  outside_count |-> Cardinality(WithState(grid, OUTSIDE)),
                  pocket_count |-> Len(pockets) ],
              pockets |-> pockets,
              computed_at |-> now ],
          grid |-> grid,
          labeled |-> lab.labeled,
          voxel_size |-> voxel_size,
          bounds_low |-> bounds_low ]

RunPipeline(xyz, voxel_target, now) ==
    LET bounds_low == BoundsLow(xyz)
        bounds_high == BoundsHigh(xyz)
        voxel_size == ComputeVoxelResolution(bounds_low, bounds_high, voxel_target)
        built == BuildOccupancyGrid(xyz, bounds_low, bounds_high, voxel_size,
                                    pocket_occupancy_dilation)
        grid == FloodFillOutside(built)
        lab == LabelPockets(grid)
        pockets == SignificantPockets(lab.labeled, grid.res, 1, lab.num_features,
                                      voxel_size, bounds_low)
    IN  [ analysis |->
            [ grid_metadata |->
                [ resolution |-> grid.res,
                  voxel_size |-> voxel_size,
                  bounds_low |-> bounds_low,
                  bounds_high |-> bounds_high,
                  occupied_count |-> Cardinality(WithState(grid, OCCUPIED)),
                  empty_count |-> Cardinality(WithState(grid, EMPTY)),
                  outside_count |-> Cardinality(WithState(grid, OUTSIDE)),
                  pocket_count |-> Len(pockets) ],
              pockets |-> pockets,
              computed_at |-> now ],
          grid |-> grid,
          labeled |-> lab.labeled,
          voxel_size |-> voxel_size,
          bounds_low |-> bounds_low ]

PipelineRaises(xyz, voxel_target) ==
    LET bounds_low == BoundsLow(xyz)
        bounds_high == BoundsHigh(xyz)
        voxel_size == ComputeVoxelResolution(bounds_low, bounds_high, voxel_target)
    IN  IndexErrorShape(GridResolution(bounds_low, bounds_high, voxel_size))

(***************************************************************************)
(* The persisted store and the cache operations.                           *)
(***************************************************************************)
Projects == {"p1"}
\* analyze_pockets runs at most MaxClock times in a behaviour
MaxClock == 2
\* values of the voxel_target argument; 0 stands for None
VoxelTargets == {0, 5}
\* pocket ids a reader asks for
PocketIds == 1..2
Signs == {"solid", "empty"}

\* point clouds a project can hold (integer coordinates)
ShellCloud ==
    { <<i, j, k>> : i \in 0..2, j \in 0..2, k \in 0..2 } \ { <<1, 1, 1>> }
SingleCloud == { <<1, 1, 1>> }
\* a solid block with a cavity of one cell and a cavity of two cells
BoxCloud ==
    { <<i, j, k>> : i \in 0..3, j \in 0..3, k \in 0..3 }
        \ { <<1, 1, 1>>, <<2, 2, 1>>, <<2, 2, 2>> }
Clouds == { ShellCloud, SingleCloud, BoxCloud }
\* points.npz does not exist
NoCloud == {}

VARIABLES
    projectDir,     \* projects whose directory projects/<id> exists
    points,         \* per project: the xyz of pointcloud/points.npz, or NoCloud
    analysisFile,   \* per project: pockets/analysis.json
    gridFile,       \* per project: pockets/grid.npz
    clock,          \* number of timestamps datetime.now has handed out
    pc,             \* position of the analyze_pockets call in flight, or "idle"
    cur,            \* project of the call in flight
    out,            \* pipeline output of the call in flight
    ret,            \* outcome of the operation that ended last
    grid,           \* SpecGrid: the voxel grid
    prev,           \* SpecGrid: the grid before _flood_fill_outside
    lab,            \* SpecGrid: result of _label_pockets
    gphase          \* SpecGrid: "none", "drawn", "filled" or "labeled"

\* SpecOctree: the pointcloud directory of one project and the upload in flight
VARIABLES
    oxyz,           \* xyz of the upload_and_process call in flight (rows 1..n)
    uploads,        \* number of upload_and_process calls begun (history)
    pointsFile,     \* pointcloud/points.npz
    tiles,          \* pointcloud/tiles: node id -> the tile file <id>.npz
    octreeMetadata, \* pointcloud/octree_metadata.json
    nodes,          \* the dict `nodes` of the _build_octree call in flight
    stack,          \* the _build_octree_recursive calls in progress, innermost last
    opc,            \* position of the upload in flight, or "idle"
    oret            \* outcome of the operation that ended last

\* SpecVoxelSize: a call of compute_voxel_resolution (arguments and result)
VARIABLES vox

\* SpecBuildGrid, SpecExtract, SpecAnalyze: a call of _build_occupancy_grid,
\* a call of _extract_pocket_info, and the pipeline of one analyze_pockets
\* call (arguments, locals and result)
VARIABLES bg, ex, an

cacheVars == <<projectDir, points, analysisFile, gridFile, clock, pc, cur, out, ret>>
gridVars == <<grid, prev, lab, gphase>>
octVars == <<oxyz, uploads, pointsFile, tiles, octreeMetadata, nodes, stack, opc, oret>>
vars == <<projectDir, points, analysisFile, gridFile, clock, pc, cur, out, ret,
          grid, prev, lab, gphase,
          oxyz, uploads, pointsFile, tiles, octreeMetadata, nodes, stack, opc, oret,
          vox, bg, ex, an>>
callVars == <<vox, bg, ex, an>>

\* A file is a record: exists, data (the chunks written so far, in order)
\* and run, the computed_at of the analyze_pockets call that wrote it (a
\* history field, not read by the program).
NoFile == [ exists |-> FALSE, run |-> 0, data |-> <<>> ]
NoAnalysis == [ none |-> TRUE ]
NoOut == [ none |-> TRUE ]
NoGrid == [ res |-> <<0, 0, 0>>, cells |-> <<>> ]
NoLab == [ labeled |-> <<>>, num_features |-> 0 ]

\* datetime <-> ISO 8601 string of model_dump(mode="json") / model_validate
IsoFormat(t) == [ iso |-> t ]
ParseIso(s) == s.iso

\* json.dump(analysis.model_dump(mode="json"), f): the text, in the order
\* json.dump writes it
JsonDump(analysis) ==
    << <<"grid_metadata", analysis.grid_metadata>>,
       <<"pockets", analysis.pockets>>,
       <<"computed_at", IsoFormat(analysis.computed_at)>> >>

JsonComplete(data) == Len(data) = 3

\* PocketAnalysis.model_validate(json.load(f)) of a complete document
ModelValidate(data) ==
    [ grid_metadata |-> data[1][2],
      pockets |-> data[2][2],
      computed_at |-> ParseIso(data[3][2]) ]

\* np.savez_compressed(grid.npz, grid=, labeled=, voxel_size=, bounds_low=):
\* the zip members in order, then the central directory written on close
NpzDump(o) ==
    << <<"grid", o.grid>>,
       <<"labeled", o.labeled>>,
       <<"voxel_size", o.voxel_size>>,
       <<"bounds_low", o.bounds_low>>,
       <<"central_directory", 4>> >>

NpzComplete(data) == Len(data) = 5

\* PocketService.get_cached_analysis: the outcome on the current store
GetCachedOutcome(p) ==
    IF ~analysisFile[p].exists THEN [ outcome |-> "none", error |-> "", analysis |-> NoAnalysis ]
    ELSE IF ~JsonComplete(analysisFile[p].data)
         THEN [ outcome |-> "error", error |-> "JSONDecodeError", analysis |-> NoAnalysis ]
         ELSE [ outcome |-> "ok", error |-> "",
                analysis |-> ModelValidate(analysisFile[p].data) ]

\* voxel centre index * voxel_size + bounds_low + voxel_size / 2, per axis
WorldCoords(v, voxel_size, bounds_low) ==
    [ a \in Axes |->
        << (2 * v[a] + 1) * voxel_size[1] + 2 * bounds_low[a] * voxel_size[2],
           2 * voxel_size[2] >> ]

\* PocketService.get_pocket_voxels: the outcome on the current store; np.load
\* of an archive without central directory raises (BadZipFile, or EOFError
\* for an empty file)
GetVoxelsOutcome(p, pocket_id) ==
    IF ~gridFile[p].exists THEN [ outcome |-> "none", error |-> "", voxels |-> {} ]
    ELSE IF ~NpzComplete(gridFile[p].data)
         THEN [ outcome |-> "error", error |-> "BadZipFile", voxels |-> {} ]
         ELSE LET data == gridFile[p].data
                  labeled == data[2][2]
                  mask == { v \in DOMAIN labeled : labeled[v] = pocket_id }
              IN  IF mask = {} THEN [ outcome |-> "none", error |-> "", voxels |-> {} ]
                  ELSE [ outcome |-> "ok", error |-> "",
                         voxels |-> { WorldCoords(v, data[3][2], data[4][2]) : v \in mask } ]

\* the fields every ret record has
Ret(op, p, outcome, error) ==
    [ op |-> op, project |-> p, outcome |-> outcome, error |-> error,
      recompute |-> FALSE, voxel_target |-> 0, pocket_id |-> 0, sign |-> "",
      pipeline |-> FALSE, analysis |-> NoAnalysis, voxels |-> {},
      constraint |-> NoAnalysis,
      \* history fields: what get_cached_analysis gave when the call began,
      \* and the computed_at the call's run took (0: none)
      before |-> NoAnalysis, stamp |-> 0 ]

\* Path.mkdir(parents=True, exist_ok=True) of _pockets_dir
PocketsDirMade(p) == projectDir \cup {p}

\* analyze_pockets, lines 220-223: the cached analysis is returned
CacheHitIgnoringRecompute(p, recompute) == GetCachedOutcome(p).outcome = "ok"

CacheHitNever(p, recompute) == FALSE

CacheHit(p, recompute) == ~recompute /\ GetCachedOutcome(p).outcome = "ok"

\* _load_points returned None, lines 226-227
NoPointCloud(p) == points[p] = NoCloud

\* raise ValueError(f"No point cloud for project {project_id}"), line 228
ReturnNoneNoPointCloud(call) == [ call EXCEPT !.outcome = "none" ]

RaiseNoPointCloud(call) == [ call EXCEPT !.outcome = "error", !.error = "ValueError" ]

\* PocketService.analyze_pockets up to the call of _save_analysis
AnalyzePockets(p, voxel_target, recompute) ==
    /\ pc = "idle"
    /\ LET cached == GetCachedOutcome(p)
           call == [ Ret("analyze", p, "", "") EXCEPT
                       !.recompute = recompute, !.voxel_target = voxel_target,
                       !.before = cached.analysis ]
       IN  IF ~recompute /\ cached.outcome = "error"
           THEN \* json.load raises inside get_cached_analysis
                /\ ret' = [ call EXCEPT !.outcome = "error", !.error = cached.error ]
                /\ projectDir' = PocketsDirMade(p)
                /\ UNCHANGED <<points, analysisFile, gridFile, clock, pc, cur, out>>
           ELSE IF CacheHit(p, recompute)
           THEN /\ ret' = [ call EXCEPT !.outcome = "ok", !.analysis = cached.analysis ]
                /\ projectDir' = PocketsDirMade(p)
                /\ UNCHANGED <<points, analysisFile, gridFile, clock, pc, cur, out>>
           ELSE IF NoPointCloud(p)
           THEN /\ ret' = RaiseNoPointCloud(call)
                /\ projectDir' = IF recompute THEN projectDir ELSE PocketsDirMade(p)
                /\ UNCHANGED <<points, analysisFile, gridFile, clock, pc, cur, out>>
           ELSE IF PipelineRaises(points[p], voxel_target)
           THEN /\ ret' = [ call EXCEPT !.outcome = "error", !.error = "IndexError",
                                        !.pipeline = TRUE ]
                /\ projectDir' = IF recompute THEN projectDir ELSE PocketsDirMade(p)
                /\ UNCHANGED <<points, analysisFile, gridFile, clock, pc, cur, out>>
           ELSE /\ clock < MaxClock
                /\ clock' = clock + 1
                /\ out' = [ call |-> [ call EXCEPT !.pipeline = TRUE, !.stamp = clock + 1 ],
                            run |-> RunPipeline(points[p], voxel_target, clock + 1) ]
                /\ pc' = "save_json_open"
                /\ cur' = p
                /\ projectDir' = IF recompute THEN projectDir ELSE PocketsDirMade(p)
                /\ UNCHANGED <<points, analysisFile, gridFile, ret>>
    /\ UNCHANGED <<gridVars, octVars, callVars>>

\* _save_analysis, lines 293-296: _pockets_dir, then open(analysis.json, "w")
\* creates or truncates the file
SaveOpenJson ==
    /\ pc = "save_json_open"
    /\ projectDir' = PocketsDirMade(cur)
    /\ analysisFile' = [ analysisFile EXCEPT ![cur] =
            [ exists |-> TRUE, run |-> out.run.analysis.computed_at, data |-> <<>> ] ]
    /\ pc' = "save_json_write"
    /\ UNCHANGED <<points, gridFile, clock, cur, out, ret>>
    /\ UNCHANGED <<gridVars, octVars, callVars>>

\* _save_analysis, line 297: json.dump writes the text chunk after chunk; the
\* step that writes the last chunk also leaves the with block
SaveWriteJson ==
    /\ pc = "save_json_write"
    /\ LET text == JsonDump(out.run.analysis)
           done == Len(analysisFile[cur].data)
       IN  /\ analysisFile' = [ analysisFile EXCEPT ![cur].data = Append(@, text[done + 1]) ]
           /\ pc' = IF done + 1 = Len(text) THEN "save_grid_open" ELSE "save_json_write"
    /\ UNCHANGED <<projectDir, points, gridFile, clock, cur, out, ret>>
    /\ UNCHANGED <<gridVars, octVars, callVars>>

\* _save_analysis, lines 300-301: np.savez_compressed opens grid.npz for
\* writing, which creates or truncates it
SaveOpenGrid ==
    /\ pc = "save_grid_open"
    /\ gridFile' = [ gridFile EXCEPT ![cur] =
            [ exists |-> TRUE, run |-> out.run.analysis.computed_at, data |-> <<>> ] ]
    /\ pc' = "save_grid_write"
    /\ UNCHANGED <<projectDir, points, analysisFile, clock, cur, out, ret>>
    /\ UNCHANGED <<gridVars, octVars, callVars>>

\* _save_analysis, lines 302-306, and the return of analyze_pockets, line
\* 281: the members are written one after the other; the step that writes
\* the central directory closes the file and analyze_pockets returns
SaveWriteGrid ==
    /\ pc = "save_grid_write"
    /\ LET members == NpzDump(out.run)
           done == Len(gridFile[cur].data)
       IN  /\ gridFile' = [ gridFile EXCEPT ![cur].data = Append(@, members[done + 1]) ]
           /\ IF done + 1 = Len(members)
              THEN /\ pc' = "idle"
                   /\ ret' = [ out.call EXCEPT !.outcome = "ok", !.analysis = out.run.analysis ]
                   /\ out' = NoOut
              ELSE UNCHANGED <<pc, ret, out>>
    /\ UNCHANGED <<projectDir, points, analysisFile, clock, cur>>
    /\ UNCHANGED <<gridVars, octVars, callVars>>

\* the call in flight ends early: an I/O error raised by open, json.dump or
\* np.savez_compressed, or the task is cancelled or killed.  Nothing in
\* analyze_pockets or _save_analysis catches it or cleans up.
AnalyzeAbort ==
    /\ pc # "idle"
    /\ pc' = "idle"
    /\ ret' = [ out.call EXCEPT !.outcome = "error", !.error = "OSError" ]
    /\ out' = NoOut
    /\ UNCHANGED <<projectDir, points, analysisFile, gridFile, clock, cur>>
    /\ UNCHANGED <<gridVars, octVars, callVars>>

\* PocketService.get_cached_analysis
GetCachedAnalysis(p) ==
    /\ LET r == GetCachedOutcome(p)
       IN  ret' = [ Ret("get_cached_analysis", p, r.outcome, r.error) EXCEPT
                      !.analysis = r.analysis ]
    /\ projectDir' = PocketsDirMade(p)
    /\ UNCHANGED <<points, analysisFile, gridFile, clock, pc, cur, out>>
    /\ UNCHANGED <<gridVars, octVars, callVars>>

\* PocketService.get_pocket_voxels
GetPocketVoxels(p, pocket_id) ==
    /\ LET r == GetVoxelsOutcome(p, pocket_id)
       IN  ret' = [ Ret("get_pocket_voxels", p, r.outcome, r.error) EXCEPT
                      !.pocket_id = pocket_id, !.voxels = r.voxels ]
    /\ projectDir' = PocketsDirMade(p)
    /\ UNCHANGED <<points, analysisFile, gridFile, clock, pc, cur, out>>
    /\ UNCHANGED <<gridVars, octVars, callVars>>

\* the loop of create_pocket_constraint, lines 356-360
FindPocket(pockets, pocket_id) ==
    IF \E i \in 1..Len(pockets) : pockets[i].pocket_id = pocket_id
    THEN LET i == CHOOSE k \in 1..Len(pockets) :
                    /\ pockets[k].pocket_id = pocket_id
                    /\ \A j \in 1..(k - 1) : pockets[j].pocket_id # pocket_id
         IN  { pockets[i] }
    ELSE {}

\* PocketService.create_pocket_constraint
CreatePocketConstraint(p, pocket_id, sign) ==
    /\ LET r == GetCachedOutcome(p)
           call == [ Ret("create_pocket_constraint", p, "", "") EXCEPT
                       !.pocket_id = pocket_id, !.sign = sign, !.before = r.analysis ]
       IN  IF r.outcome = "error"
           THEN ret' = [ call EXCEPT !.outcome = "error", !.error = r.error ]
           ELSE IF r.outcome = "none"
           THEN ret' = [ call EXCEPT !.outcome = "error", !.error = "ValueError" ]
           ELSE LET found == FindPocket(r.analysis.pockets, pocket_id)
                IN  IF found = {}
                    THEN ret' = [ call EXCEPT !.outcome = "error", !.error = "ValueError" ]
                    ELSE LET pocket_info == CHOOSE f \in found : TRUE
                         IN  ret' = [ call EXCEPT
                                 !.outcome = "ok",
                                 !.constraint =
                                     [ type |-> "pocket",
                                       sign |-> sign,
                                       pocket_id |-> pocket_info.pocket_id,
                                       voxel_count |-> pocket_info.voxel_count,
                                       centroid |-> pocket_info.centroid,
                                       bounds_low |-> pocket_info.bounds_low,
                                       bounds_high |-> pocket_info.bounds_high,
                                       volume_estimate |-> pocket_info.volume_estimate ] ]
    /\ projectDir' = PocketsDirMade(p)
    /\ UNCHANGED <<points, analysisFile, gridFile, clock, pc, cur, out>>
    /\ UNCHANGED <<gridVars, octVars, callVars>>

\* PocketService.clear_cache: every file of the pockets directory is unlinked
ClearCache(p) ==
    /\ pc = "idle"
    /\ projectDir' = PocketsDirMade(p)
    /\ analysisFile' = [ analysisFile EXCEPT ![p] = NoFile ]
    /\ gridFile' = [ gridFile EXCEPT ![p] = NoFile ]
    /\ ret' = Ret("clear_cache", p, "none", "")
    /\ UNCHANGED <<points, clock, pc, cur, out>>
    /\ UNCHANGED <<gridVars, octVars, callVars>>

\* PointCloudService.upload_and_process, lines 58-66: points.npz is written
UploadAndProcess(p, cloud) ==
    /\ pc = "idle"
    /\ projectDir' = projectDir \cup {p}
    /\ points' = [ points EXCEPT ![p] = cloud ]
    /\ ret' = Ret("upload_and_process", p, "ok", "")
    /\ UNCHANGED <<analysisFile, gridFile, clock, pc, cur, out>>
    /\ UNCHANGED <<gridVars, octVars, callVars>>

\* ProjectService.create, lines 36-37
CreateProject(p) ==
    /\ pc = "idle"
    /\ p \notin projectDir
    /\ projectDir' = projectDir \cup {p}
    /\ ret' = Ret("create", p, "ok", "")
    /\ UNCHANGED <<points, analysisFile, gridFile, clock, pc, cur, out>>
    /\ UNCHANGED <<gridVars, octVars, callVars>>

\* ProjectService.delete: rmtree of the project directory; outcome "none"
\* stands for the return value False
DeleteProject(p) ==
    /\ pc = "idle"
    /\ IF p \in projectDir
       THEN /\ projectDir' = projectDir \ {p}
            /\ points' = [ points EXCEPT ![p] = NoCloud ]
            /\ analysisFile' = [ analysisFile EXCEPT ![p] = NoFile ]
            /\ gridFile' = [ gridFile EXCEPT ![p] = NoFile ]
            /\ ret' = Ret("delete", p, "ok", "")
       ELSE /\ ret' = Ret("delete", p, "none", "")
            /\ UNCHANGED <<projectDir, points, analysisFile, gridFile>>
    /\ UNCHANGED <<clock, pc, cur, out>>
    /\ UNCHANGED <<gridVars, octVars, callVars>>

\* the pointcloud directory of a project that has just been created
NoPointsFile == [ exists |-> FALSE, upload |-> 0, xyz |-> <<>> ]
NoMetadata == [ exists |-> FALSE ]
ORet(op, outcome, error) ==
    [ op |-> op, outcome |-> outcome, error |-> error,
      \* history fields: the xyz and the number of the upload
      xyz |-> <<>>, upload |-> 0,
      point_count |-> 0, level |-> 0, x |-> 0, y |-> 0, z |-> 0,
      node_id |-> <<>>, positions |-> <<>> ]

NoVox == [ phase |-> "none" ]
NoCall == [ phase |-> "none" ]

InitPointcloudDir ==
    /\ vox = NoVox
    /\ bg = NoCall
    /\ ex = NoCall
    /\ an = NoCall
    /\ oxyz = <<>>
    /\ uploads = 0
    /\ pointsFile = NoPointsFile
    /\ tiles = <<>>
    /\ octreeMetadata = NoMetadata
    /\ nodes = <<>>
    /\ stack = <<>>
    /\ opc = "idle"
    /\ oret = ORet("none", "none", "")

Init ==
    /\ InitPointcloudDir
    /\ projectDir = {}
    /\ points = [ p \in Projects |-> NoCloud ]
    /\ analysisFile = [ p \in Projects |-> NoFile ]
    /\ gridFile = [ p \in Projects |-> NoFile ]
    /\ clock = 0
    /\ pc = "idle"
    /\ cur = CHOOSE p \in Projects : TRUE
    /\ out = NoOut
    /\ ret = Ret("none", CHOOSE p \in Projects : TRUE, "none", "")
    /\ grid = NoGrid
    /\ prev = NoGrid
    /\ lab = NoLab
    /\ gphase = "none"

Next ==
    \/ \E p \in Projects, t \in VoxelTargets, r \in BOOLEAN : AnalyzePockets(p, t, r)
    \/ SaveOpenJson
    \/ SaveWriteJson
    \/ SaveOpenGrid
    \/ SaveWriteGrid
    \/ AnalyzeAbort
    \/ \E p \in Projects : GetCachedAnalysis(p)
    \/ \E p \in Projects, i \in PocketIds : GetPocketVoxels(p, i)
    \/ \E p \in Projects, i \in PocketIds, s \in Signs : CreatePocketConstraint(p, i, s)
    \/ \E p \in Projects : ClearCache(p)
    \/ \E p \in Projects, c \in Clouds : UploadAndProcess(p, c)
    \/ \E p \in Projects : CreateProject(p)
    \/ \E p \in Projects : DeleteProject(p)

Spec == Init /\ [][Next]_vars

(***************************************************************************)
(* SpecGrid: _flood_fill_outside and _label_pockets on the grids of shape  *)
(* NX x 3 x 3 that are one background state with at most MaxFlip voxels    *)
(* flipped (background EMPTY: flipped to OCCUPIED; background OCCUPIED:    *)
(* flipped to EMPTY).  _label_pockets is applied to the drawn grids and to *)
(* the flood-filled ones, which hold OUTSIDE voxels.                       *)
(***************************************************************************)
GridShape == <<NX, 3, 3>>

\* the subsets of V with at most k voxels (each is built once, by adding
\* voxels in raster order)
RECURSIVE SubsetsUpTo(_, _)
SubsetsUpTo(V, k) ==
    IF k = 0 THEN { {} }
    ELSE LET smaller == SubsetsUpTo(V, k - 1)
             largest == { s \in smaller : Cardinality(s) = k - 1 }
         IN  smaller \cup
             { e[1] \cup {e[2]} :
                 e \in { sv \in largest \X V : \A u \in sv[1] : RasterBefore(u, sv[2]) } }

DrawnGrid(background, flipped) ==
    [ res |-> GridShape,
      cells |-> [ v \in Voxels(GridShape) |->
          IF v \in flipped
          THEN (IF background = EMPTY THEN OCCUPIED ELSE EMPTY)
          ELSE background ] ]

InitGrid ==
    /\ InitPointcloudDir
    /\ projectDir = {}
    /\ points = [ p \in Projects |-> NoCloud ]
    /\ analysisFile = [ p \in Projects |-> NoFile ]
    /\ gridFile = [ p \in Projects |-> NoFile ]
    /\ clock = 0
    /\ pc = "idle"
    /\ cur = CHOOSE p \in Projects : TRUE
    /\ out = NoOut
    /\ ret = Ret("none", CHOOSE p \in Projects : TRUE, "none", "")
    /\ \E background \in {EMPTY, OCCUPIED} :
         \E flipped \in SubsetsUpTo(Voxels(GridShape), MaxFlip) :
            grid = DrawnGrid(background, flipped)
    /\ prev = NoGrid
    /\ lab = NoLab
    /\ gphase = "drawn"

\* grid = self._flood_fill_outside(grid)
FloodFillStep ==
    /\ gphase = "drawn"
    /\ prev' = grid
    /\ grid' = FloodFillOutside(grid)
    /\ gphase' = "filled"
    /\ UNCHANGED lab
    /\ UNCHANGED <<cacheVars, octVars, callVars>>

\* labeled, num_pockets = self._label_pockets(grid)
LabelStep ==
    /\ gphase \in {"drawn", "filled"}
    /\ Cardinality(WithState(grid, EMPTY)) <= MaxFlip
    /\ lab' = LabelPockets(grid)
    /\ gphase' = "labeled"
    /\ UNCHANGED <<grid, prev>>
    /\ UNCHANGED <<cacheVars, octVars, callVars>>

NextGrid ==
    \/ FloodFillStep
    \/ LabelStep

SpecGrid == InitGrid /\ [][NextGrid]_vars

(***************************************************************************)
(* SpecOctree: PointCloudService.upload_and_process with _build_octree and *)
(* _build_octree_recursive, and get_tile with _coords_to_node_id, on the   *)
(* pointcloud directory of a freshly created project.  The recursion is    *)
(* followed call by call on an explicit stack.  Coordinates are floats,    *)
(* modelled as exact rationals <<numerator, denominator>>; <<0, 0>> is NaN.*)
(* The uploads drawn carry normals or are made with estimate_normals=False *)
(* (so _estimate_normals does not run); the normals array does not         *)
(* influence the octree and is left out.                                   *)
(***************************************************************************)
\* Settings.octree_node_target and Settings.octree_max_depth (config.py sets
\* 65536 and 12; the model is run with small values)
octree_node_target == 2
octree_max_depth == 2

\* at most MaxPts rows in an uploaded array
MaxPts == 4

NaN == <<0, 0>>
Float(n) == <<n, 1>>
IsFinite(a) == a[2] # 0
\* IEEE comparisons: every comparison with NaN is false
FloatGE(a, b) == IsFinite(a) /\ IsFinite(b) /\ ~RatLess(a, b)
FloatLT(a, b) == IsFinite(a) /\ IsFinite(b) /\ RatLess(a, b)
\* (a + b) / 2; NaN when a or b is NaN
Midpoint(a, b) == <<a[1] * b[2] + b[1] * a[2], 2 * a[2] * b[2]>>

\* xyz.min(axis=0)[a] and xyz.max(axis=0)[a] of a non-empty array: numpy
\* propagates NaN
ColumnMin(xyz, a) ==
    IF \E i \in DOMAIN xyz : ~IsFinite(xyz[i][a]) THEN NaN
    ELSE LET col == { xyz[i][a] : i \in DOMAIN xyz }
         IN  CHOOSE v \in col : \A w \in col : ~RatLess(w, v)

ColumnMax(xyz, a) ==
    IF \E i \in DOMAIN xyz : ~IsFinite(xyz[i][a]) THEN NaN
    ELSE LET col == { xyz[i][a] : i \in DOMAIN xyz }
         IN  CHOOSE v \in col : \A w \in col : ~RatLess(v, w)

\* (n >> k) & 1
Bit(n, k) == (n \div (2 ^ k)) % 2

\* _build_octree_recursive, lines 364-380: the bounds of the child `octant`
ChildBoundsZFirst(bounds_low, bounds_high, octant) ==
    LET center == [ a \in Axes |-> Midpoint(bounds_low[a], bounds_high[a]) ]
    IN  [ low |-> [ a \in Axes |->
                      IF Bit(octant, 3 - a) = 1 THEN center[a] ELSE bounds_low[a] ],
          high |-> [ a \in Axes |->
                      IF Bit(octant, 3 - a) = 1 THEN bounds_high[a] ELSE center[a] ] ]

ChildBounds(bounds_low, bounds_high, octant) ==
    LET center == [ a \in Axes |-> Midpoint(bounds_low[a], bounds_high[a]) ]
    IN  [ low |-> [ a \in Axes |->
                      IF Bit(octant, a - 1) = 1 THEN center[a] ELSE bounds_low[a] ],
          high |-> [ a \in Axes |->
                      IF Bit(octant, a - 1) = 1 THEN bounds_high[a] ELSE center[a] ] ]

\* _build_octree_recursive, lines 383-391: indices[mask]
ChildIndices(xyz, indices, child_low, child_high) ==
    { i \in indices :
        \A a \in Axes : FloatGE(xyz[i][a], child_low[a]) /\ FloatLT(xyz[i][a], child_high[a]) }

\* _build_octree_recursive, lines 343 and 359: leaf, and its negation
ShouldSubdivideOffByOne(point_count, level) ==
    point_count > octree_node_target /\ level <= octree_max_depth

ShouldSubdivide(point_count, level) ==
    point_count > octree_node_target /\ level < octree_max_depth

\* node ids: the string "r" followed by octant digits, as the sequence of
\* its characters (the digits as numbers)
RootId == <<"r">>
\* f"{node_id}{octant}"
ChildId(node_id, octant) == Append(node_id, octant)

\* PointCloudService._coords_to_node_id
CoordsToNodeIdLsbFirst(level, x, y, z) ==
    IF level = 0 THEN RootId
    ELSE RootId \o
         [ l \in 1..level |->
             LET shift == l - 1
             IN  Bit(x, shift) + 2 * Bit(y, shift) + 4 * Bit(z, shift) ]

CoordsToNodeId(level, x, y, z) ==
    IF level = 0 THEN RootId
    ELSE RootId \o
         [ l \in 1..level |->
             LET shift == level - (l - 1) - 1
             IN  Bit(x, shift) + 2 * Bit(y, shift) + 4 * Bit(z, shift) ]

\* tile_xyz.astype(np.float32): exact on the coordinates drawn (integers of
\* small magnitude), NaN stays NaN
AsFloat32(c) == IF IsFinite(c) THEN <<c[1], c[2]>> ELSE NaN

\* the rows an upload can carry: points with coordinates 0..4, and a point
\* with a NaN coordinate
OctreeUniverse ==
    << <<Float(0), Float(0), Float(0)>>,
       <<Float(1), Float(0), Float(0)>>,
       <<Float(0), Float(0), Float(1)>>,
       <<Float(2), Float(0), Float(0)>>,
       <<Float(0), Float(2), Float(1)>>,
       <<Float(3), Float(2), Float(2)>>,
       <<Float(4), Float(4), Float(4)>>,
       <<NaN, Float(1), Float(1)>> >>

\* the uploaded arrays: at most MaxPts rows of the universe, rows in the
\* order of the universe (the row order does not influence the octree)
OctreeClouds ==
    UNION { { [ i \in 1..n |-> OctreeUniverse[c[i]] ] :
                c \in { f \in [1..n -> DOMAIN OctreeUniverse] :
                          \A i \in 1..n : \A j \in 1..n : i < j => f[i] <= f[j] } } :
            n \in 0..MaxPts }

\* write or overwrite the file of key k
WriteFile(dir, k, content) ==
    [ x \in (DOMAIN dir) \cup {k} |-> IF x = k THEN content ELSE dir[x] ]

Frame(node_id, indices, bounds_low, bounds_high, level) ==
    [ node_id |-> node_id, indices |-> indices,
      bounds_low |-> bounds_low, bounds_high |-> bounds_high, level |-> level,
      \* the next value of the loop variable `octant`, node_info.children,
      \* and whether the tile part (lines 329-356) has run
      octant |-> 0, children |-> <<>>, entered |-> FALSE ]

Top == stack[Len(stack)]
ReplaceTop(frame) == [ stack EXCEPT ![Len(stack)] = frame ]
Pop == SubSeq(stack, 1, Len(stack) - 1)

\* upload_and_process, lines 36-66 (xyz is what _load_points parsed): the
\* bounds of the response are computed, which raises ValueError on an array
\* without rows (zero-size reduction), then points.npz is written
UploadAndProcessOctree(xyz) ==
    /\ opc = "idle"
    /\ uploads' = uploads + 1
    /\ oxyz' = xyz
    /\ IF Len(xyz) = 0
       THEN /\ oret' = [ ORet("upload_and_process", "error", "ValueError") EXCEPT
                           !.xyz = xyz, !.upload = uploads + 1 ]
            /\ UNCHANGED <<pointsFile, opc>>
       ELSE /\ pointsFile' = [ exists |-> TRUE, upload |-> uploads + 1, xyz |-> xyz ]
            /\ opc' = "build_octree"
            /\ UNCHANGED oret
    /\ UNCHANGED <<tiles, octreeMetadata, nodes, stack>>
    /\ UNCHANGED <<cacheVars, gridVars, callVars>>

\* _build_octree, lines 273-298: the bounds, the empty dict and the call of
\* _build_octree_recursive for the root
BuildOctree ==
    /\ opc = "build_octree"
    /\ nodes' = <<>>
    /\ stack' = << Frame(RootId, DOMAIN oxyz,
                         [ a \in Axes |-> ColumnMin(oxyz, a) ],
                         [ a \in Axes |-> ColumnMax(oxyz, a) ], 0) >>
    /\ opc' = "recursive"
    /\ UNCHANGED <<oxyz, uploads, pointsFile, tiles, octreeMetadata, oret>>
    /\ UNCHANGED <<cacheVars, gridVars, callVars>>

\* _build_octree_recursive, line 349: min(target_points // 2, point_count)
SubsampleCountWholeTarget(point_count) == Min2(octree_node_target, point_count)

SubsampleCount(point_count) == Min2(octree_node_target \div 2, point_count)

\* _build_octree_recursive, lines 329-356: the tile of the node; a leaf
\* keeps all its rows, another node a sample of them drawn by
\* np.random.choice(indices, subsample_count, replace=False)
SaveTile ==
    /\ opc = "recursive"
    /\ ~Top.entered
    /\ LET point_count == Cardinality(Top.indices)
           subsample_count == SubsampleCount(point_count)
       IN  IF point_count > 0
           THEN \E tile_indices \in SUBSET Top.indices :
                  /\ IF ~ShouldSubdivide(point_count, Top.level)
                     THEN tile_indices = Top.indices
                     ELSE Cardinality(tile_indices) = subsample_count
                  /\ tiles' = WriteFile(tiles, Top.node_id,
                        [ upload |-> uploads,
                          positions |-> [ i \in tile_indices |->
                                            [ a \in Axes |-> AsFloat32(oxyz[i][a]) ] ] ])
           ELSE UNCHANGED tiles
    /\ stack' = ReplaceTop([ Top EXCEPT !.entered = TRUE ])
    /\ UNCHANGED <<oxyz, uploads, pointsFile, octreeMetadata, nodes, opc, oret>>
    /\ UNCHANGED <<cacheVars, gridVars, callVars>>

\* the octants from `octant` on into which rows of the call fall
OctantsLeft(frame) ==
    { o \in frame.octant..7 :
        LET child == ChildBounds(frame.bounds_low, frame.bounds_high, o)
        IN  ChildIndices(oxyz, frame.indices, child.low, child.high) # {} }

\* _build_octree_recursive, lines 362-409: the loop over the octants up to
\* the next octant that rows fall into, and the call for that child
SubdivideOctant ==
    /\ opc = "recursive"
    /\ Top.entered
    /\ ShouldSubdivide(Cardinality(Top.indices), Top.level)
    /\ OctantsLeft(Top) # {}
    /\ LET octant == SetMin(OctantsLeft(Top))
           child == ChildBounds(Top.bounds_low, Top.bounds_high, octant)
           child_indices == ChildIndices(oxyz, Top.indices, child.low, child.high)
           child_id == ChildId(Top.node_id, octant)
       IN  stack' = Append(
                ReplaceTop([ Top EXCEPT !.octant = octant + 1,
                                        !.children = Append(@, child_id) ]),
                Frame(child_id, child_indices, child.low, child.high, Top.level + 1))
    /\ UNCHANGED <<oxyz, uploads, pointsFile, tiles, octreeMetadata, nodes, opc, oret>>
    /\ UNCHANGED <<cacheVars, gridVars, callVars>>

\* _build_octree_recursive, lines 362-411: the rest of the loop (no rows
\* fall into the octants left), nodes[node_id] = node_info, and the return
\* to the caller.  `indices` is a history field (the rows the call was made
\* with); it is not part of OctreeNodeInfo.
RegisterNode ==
    /\ opc = "recursive"
    /\ Top.entered
    /\ ~(ShouldSubdivide(Cardinality(Top.indices), Top.level) /\ OctantsLeft(Top) # {})
    /\ nodes' = WriteFile(nodes, Top.node_id,
            [ node_id |-> Top.node_id,
              level |-> Top.level,
              bounds_low |-> Top.bounds_low,
              bounds_high |-> Top.bounds_high,
              point_count |-> Cardinality(Top.indices),
              children |-> Top.children,
              indices |-> Top.indices ])
    /\ stack' = Pop
    /\ opc' = IF Len(stack) = 1 THEN "save_metadata" ELSE "recursive"
    /\ UNCHANGED <<oxyz, uploads, pointsFile, tiles, octreeMetadata, oret>>
    /\ UNCHANGED <<cacheVars, gridVars, callVars>>

\* metadata.model_dump() of the OctreeNodeInfo values
NodeInfoDump(info) ==
    [ node_id |-> info.node_id, level |-> info.level,
      bounds_low |-> info.bounds_low, bounds_high |-> info.bounds_high,
      point_count |-> info.point_count, children |-> info.children ]

\* _build_octree, lines 300-312, and the return of upload_and_process, lines
\* 71-79
SaveMetadata ==
    /\ opc = "save_metadata"
    /\ octreeMetadata' =
         [ exists |-> TRUE,
           upload |-> uploads,
           root_id |-> RootId,
           bounds_low |-> [ a \in Axes |-> ColumnMin(oxyz, a) ],
           bounds_high |-> [ a \in Axes |-> ColumnMax(oxyz, a) ],
           total_points |-> Len(oxyz),
           max_depth |-> IF DOMAIN nodes # {}
                         THEN SetMax({ nodes[id].level : id \in DOMAIN nodes }) ELSE 0,
           node_count |-> Cardinality(DOMAIN nodes),
           nodes |-> [ id \in DOMAIN nodes |-> NodeInfoDump(nodes[id]) ] ]
    /\ oret' = [ ORet("upload_and_process", "ok", "") EXCEPT
                   !.xyz = oxyz, !.upload = uploads, !.point_count = Len(oxyz) ]
    /\ opc' = "idle"
    /\ UNCHANGED <<oxyz, uploads, pointsFile, tiles, nodes, stack>>
    /\ UNCHANGED <<cacheVars, gridVars, callVars>>

\* PointCloudService.get_tile
GetTile(level, x, y, z) ==
    /\ opc = "idle"
    /\ LET node_id == CoordsToNodeId(level, x, y, z)
           call == [ ORet("get_tile", "", "") EXCEPT
                       !.level = level, !.x = x, !.y = y, !.z = z ]
       IN  IF node_id \notin DOMAIN tiles
           THEN \* return None
                oret' = ORet("get_tile", "none", "")
           ELSE oret' = [ call EXCEPT !.outcome = "ok",
                                      !.node_id = node_id,
                                      !.point_count = Cardinality(DOMAIN tiles[node_id].positions),
                                      !.positions = tiles[node_id].positions ]
    /\ UNCHANGED <<oxyz, uploads, pointsFile, tiles, octreeMetadata, nodes, stack, opc>>
    /\ UNCHANGED <<cacheVars, gridVars, callVars>>

\* tile addresses a viewer asks for: every level of the octree, every grid
\* coordinate of the level
TileLevels == 0..octree_max_depth
TileCoords(level) == 0..(2 ^ level - 1)

InitOctree ==
    /\ InitPointcloudDir
    /\ projectDir = {}
    /\ points = [ p \in Projects |-> NoCloud ]
    /\ analysisFile = [ p \in Projects |-> NoFile ]
    /\ gridFile = [ p \in Projects |-> NoFile ]
    /\ clock = 0
    /\ pc = "idle"
    /\ cur = CHOOSE p \in Projects : TRUE
    /\ out = NoOut
    /\ ret = Ret("none", CHOOSE p \in Projects : TRUE, "none", "")
    /\ grid = NoGrid
    /\ prev = NoGrid
    /\ lab = NoLab
    /\ gphase = "none"

\* the first upload into the project, its octree build, and tile reads
NextOctree ==
    \/ \E xyz \in OctreeClouds : uploads = 0 /\ UploadAndProcessOctree(xyz)
    \/ BuildOctree
    \/ SaveTile
    \/ SubdivideOctant
    \/ RegisterNode
    \/ SaveMetadata
    \/ \E level \in TileLevels :
         \E x \in TileCoords(level), y \in TileCoords(level), z \in TileCoords(level) :
            GetTile(level, x, y, z)

SpecOctree == InitOctree /\ [][NextOctree]_vars

(***************************************************************************)
(* SpecRebuild: up to MaxUploads uploads into the same project, each with  *)
(* its octree build, and tile reads between them.                          *)
(***************************************************************************)
MaxUploads == 2

\* the arrays uploaded: without rows, one row, two rows (a leaf root), and
\* three and four rows (the root is subdivided)
RebuildClouds ==
    { <<>>,
      << OctreeUniverse[1] >>,
      << OctreeUniverse[1], OctreeUniverse[7] >>,
      << OctreeUniverse[4], OctreeUniverse[5], OctreeUniverse[6] >>,
      << OctreeUniverse[1], OctreeUniverse[2], OctreeUniverse[3], OctreeUniverse[7] >> }

NextRebuild ==
    \/ \E xyz \in RebuildClouds : uploads < MaxUploads /\ UploadAndProcessOctree(xyz)
    \/ BuildOctree
    \/ SaveTile
    \/ SubdivideOctant
    \/ RegisterNode
    \/ SaveMetadata
    \/ \E level \in TileLevels :
         \E x \in TileCoords(level), y \in TileCoords(level), z \in TileCoords(level) :
            GetTile(level, x, y, z)

SpecRebuild == InitOctree /\ [][NextRebuild]_vars

(***************************************************************************)
(* SpecVoxelSize: PocketService.compute_voxel_resolution applied to the    *)
(* boxes with integer corners in 0..MaxBound and to the targets            *)
(* 0..MaxTarget (0 stands for None).                                       *)
(***************************************************************************)
MaxBound == 3
MaxTarget == 4

InitVoxelSize ==
    /\ projectDir = {}
    /\ points = [ p \in Projects |-> NoCloud ]
    /\ analysisFile = [ p \in Projects |-> NoFile ]
    /\ gridFile = [ p \in Projects |-> NoFile ]
    /\ clock = 0
    /\ pc = "idle"
    /\ cur = CHOOSE p \in Projects : TRUE
    /\ out = NoOut
    /\ ret = Ret("none", CHOOSE p \in Projects : TRUE, "none", "")
    /\ grid = NoGrid
    /\ prev = NoGrid
    /\ lab = NoLab
    /\ gphase = "none"
    /\ oxyz = <<>>
    /\ uploads = 0
    /\ pointsFile = NoPointsFile
    /\ tiles = <<>>
    /\ octreeMetadata = NoMetadata
    /\ nodes = <<>>
    /\ stack = <<>>
    /\ opc = "idle"
    /\ oret = ORet("none", "none", "")
    /\ bg = NoCall
    /\ ex = NoCall
    /\ an = NoCall
    /\ \E bounds_low \in [Axes -> 0..1], bounds_high \in [Axes -> 0..MaxBound],
          target_voxels \in 0..MaxTarget :
            /\ \A a \in Axes : bounds_low[a] <= bounds_high[a]
            /\ vox = [ phase |-> "called", bounds_low |-> bounds_low,
                       bounds_high |-> bounds_high, target_voxels |-> target_voxels,
                       voxel_size |-> <<0, 1>> ]

\* voxel_size = self.compute_voxel_resolution(bounds_low, bounds_high, voxel_target)
ComputeVoxelResolutionStep ==
    /\ vox.phase = "called"
    /\ vox' = [ vox EXCEPT
                  !.phase = "returned",
                  !.voxel_size = ComputeVoxelResolution(vox.bounds_low, vox.bounds_high,
                                                        vox.target_voxels) ]
    /\ UNCHANGED <<cacheVars, gridVars, octVars, bg, ex, an>>

NextVoxelSize == ComputeVoxelResolutionStep

SpecVoxelSize == InitVoxelSize /\ [][NextVoxelSize]_vars

(***************************************************************************)
(* SpecBuildGrid: PocketService._build_occupancy_grid called twice on the  *)
(* same points, box and voxel size, with dilation=0 and with a dilation    *)
(* r > 0 (as test_build_occupancy_grid_dilation does), with the default    *)
(* settings.  The points need not lie in the box.                          *)
(***************************************************************************)
\* at most MaxGridPts points in xyz
MaxGridPts == 2
\* dilation is 1..MaxDilation in the second call
MaxDilation == 2

GridPoints == { <<i, j, k>> : i \in {0, 1, 3}, j \in {0, 2}, k \in {0, 3} }
\* the boxes [bounds_low, bounds_high]; the last has no extent on the y axis
GridBoxes ==
    { << <<0, 0, 0>>, <<3, 3, 3>> >>,
      << <<0, 0, 0>>, <<1, 2, 3>> >>,
      << <<1, 0, 0>>, <<3, 2, 3>> >>,
      << <<0, 0, 0>>, <<2, 2, 2>> >>,
      << <<0, 0, 0>>, <<3, 0, 3>> >> }
GridVoxelSizes == { <<1, 2>>, <<1, 1>>, <<3, 2>> }

\* the stores of a service on which nothing has been called
InitStores ==
    /\ projectDir = {}
    /\ points = [ p \in Projects |-> NoCloud ]
    /\ analysisFile = [ p \in Projects |-> NoFile ]
    /\ gridFile = [ p \in Projects |-> NoFile ]
    /\ clock = 0
    /\ pc = "idle"
    /\ cur = CHOOSE p \in Projects : TRUE
    /\ out = NoOut
    /\ ret = Ret("none", CHOOSE p \in Projects : TRUE, "none", "")
    /\ grid = NoGrid
    /\ prev = NoGrid
    /\ lab = NoLab
    /\ gphase = "none"
    /\ oxyz = <<>>
    /\ uploads = 0
    /\ pointsFile = NoPointsFile
    /\ tiles = <<>>
    /\ octreeMetadata = NoMetadata
    /\ nodes = <<>>
    /\ stack = <<>>
    /\ opc = "idle"
    /\ oret = ORet("none", "none", "")

InitBuildGrid ==
    /\ InitStores
    /\ vox = NoVox
    /\ ex = NoCall
    /\ an = NoCall
    /\ \E xyz \in SubsetsUpTo(GridPoints, MaxGridPts) \ { {} }, box \in GridBoxes,
          voxel_size \in GridVoxelSizes, dilation \in 1..MaxDilation :
            bg = [ phase |-> "called", xyz |-> xyz,
                   bounds_low |-> box[1], bounds_high |-> box[2],
                   voxel_size |-> voxel_size, dilation |-> dilation,
                   grid_no_dilation |-> NoGrid, grid_with_dilation |-> NoGrid,
                   error |-> "" ]

\* grid_no_dilation = _build_occupancy_grid(xyz, bounds_low, bounds_high,
\* voxel_size, dilation=0); indexing an axis of length 0 raises IndexError
BuildGridNoDilation ==
    /\ bg.phase = "called"
    /\ IF IndexErrorShape(GridResolution(bg.bounds_low, bg.bounds_high, bg.voxel_size))
       THEN bg' = [ bg EXCEPT !.phase = "raised", !.error = "IndexError" ]
       ELSE bg' = [ bg EXCEPT
                      !.phase = "plain",
                      !.grid_no_dilation =
                          BuildOccupancyGrid(bg.xyz, bg.bounds_low, bg.bounds_high,
                                             bg.voxel_size, 0) ]
    /\ UNCHANGED <<cacheVars, gridVars, octVars, vox, ex, an>>

\* grid_with_dilation = _build_occupancy_grid(xyz, bounds_low, bounds_high,
\* voxel_size, dilation=r)
BuildGridWithDilation ==
    /\ bg.phase = "plain"
    /\ bg' = [ bg EXCEPT
                 !.phase = "dilated",
                 !.grid_with_dilation =
                     BuildOccupancyGrid(bg.xyz, bg.bounds_low, bg.bounds_high,
                                        bg.voxel_size, bg.dilation) ]
    /\ UNCHANGED <<cacheVars, gridVars, octVars, vox, ex, an>>

NextBuildGrid ==
    \/ BuildGridNoDilation
    \/ BuildGridWithDilation

SpecBuildGrid == InitBuildGrid /\ [][NextBuildGrid]_vars

(***************************************************************************)
(* SpecExtract: PocketService._extract_pocket_info called on the labeled   *)
(* arrays of shape 3 x 2 x 2 with at most MaxLabeled voxels labeled 1 or   *)
(* 2, for the ids 1..3 (3 never occurs in the array).                      *)
(***************************************************************************)
MaxLabeled == 3

ExtractShape == <<3, 2, 2>>
ExtractIds == 1..3
ExtractVoxelSizes == { <<1, 2>>, <<3, 2>> }
ExtractOrigins == { <<0, 0, 0>>, <<1, -2, 3>> }

\* the array with label 1 on ones, label 2 on twos and 0 elsewhere
LabeledArray(ones, twos) ==
    [ v \in Voxels(ExtractShape) |-> IF v \in ones THEN 1 ELSE IF v \in twos THEN 2 ELSE 0 ]

InitExtract ==
    /\ InitStores
    /\ vox = NoVox
    /\ bg = NoCall
    /\ an = NoCall
    /\ \E nonzero \in SubsetsUpTo(Voxels(ExtractShape), MaxLabeled) :
         \E ones \in SUBSET nonzero :
           \E pocket_id \in ExtractIds, voxel_size \in ExtractVoxelSizes,
              bounds_low \in ExtractOrigins :
                ex = [ phase |-> "called",
                       labeled |-> LabeledArray(ones, nonzero \ ones),
                       pocket_id |-> pocket_id, voxel_size |-> voxel_size,
                       bounds_low |-> bounds_low,
                       info |-> NoAnalysis, error |-> "" ]

\* info = self._extract_pocket_info(labeled, pocket_id, voxel_size, bounds_low);
\* lines 184-185 raise ValueError when no voxel has the label
ExtractPocketInfoStep ==
    /\ ex.phase = "called"
    /\ IF \A v \in Voxels(ExtractShape) : ex.labeled[v] # ex.pocket_id
       THEN ex' = [ ex EXCEPT !.phase = "raised", !.error = "ValueError" ]
       ELSE ex' = [ ex EXCEPT
                      !.phase = "returned",
                      !.info = ExtractPocketInfo(ex.labeled, ExtractShape, ex.pocket_id,
                                                 ex.voxel_size, ex.bounds_low) ]
    /\ UNCHANGED <<cacheVars, gridVars, octVars, vox, bg, an>>

NextExtract == ExtractPocketInfoStep

SpecExtract == InitExtract /\ [][NextExtract]_vars

(***************************************************************************)
(* SpecAnalyze: the pipeline of one analyze_pockets call (lines 230-276),  *)
(* one action per stage, for a service with the settings of the call and   *)
(* the stored cloud xyz.  The clouds drawn: a solid 4 x 4 x 4 block with   *)
(* at most MaxHoles points left out, the clouds of one or two corners of   *)
(* that block (zero extent on one or more axes), and the hollow cube shell *)
(* of tests/test_pocket_service.py under the settings of its fixture.      *)
(***************************************************************************)
MaxHoles == 4

\* the points a block cloud can lack: the inner points and three points of
\* its faces
HoleSites ==
    { <<i, j, k>> : i \in 1..2, j \in 1..2, k \in 1..2 }
        \cup { <<0, 1, 1>>, <<1, 1, 0>>, <<3, 2, 2>> }

BlockClouds ==
    { { <<i, j, k>> : i \in 0..3, j \in 0..3, k \in 0..3 } \ holes :
        holes \in SubsetsUpTo(HoleSites, MaxHoles) }

Corners == { <<i, j, k>> : i \in {0, 3}, j \in {0, 3}, k \in {0, 3} }
CornerClouds == SubsetsUpTo(Corners, 2) \ { {} }

\* settings with another dilation
Dilated(settings, dilation) == [ settings EXCEPT !.pocket_occupancy_dilation = dilation ]

\* tests/test_pocket_service.py: the settings of the pocket_service fixture.
\* pocket_min_voxel_size and pocket_max_voxels_per_axis keep values that do
\* not bind at 16 voxels per axis.
FixtureSettings ==
    [ pocket_voxel_target |-> 32,
      pocket_min_voxel_size |-> <<1, 2>>,
      pocket_max_voxels_per_axis |-> 32,
      pocket_min_volume_voxels |-> 4,
      pocket_occupancy_dilation |-> 2 ]

\* cube_shell_pointcloud with every face fully sampled: the 2 x 2 x 2 cube
\* with faces at 0 and 2, in units of 1/8 (faces at 0 and CubeSide), one
\* point at every lattice point of the six faces
CubeSide == 16
CubeShellCloud ==
    { <<i, j, k>> : i \in 0..CubeSide, j \in 0..CubeSide, k \in 0..CubeSide } \
        { <<i, j, k>> : i \in 1..(CubeSide - 1), j \in 1..(CubeSide - 1),
                         k \in 1..(CubeSide - 1) }

\* test_analyze_pockets_hollow_cube passes voxel_target=16; "about 16"
CubeTargets == 15..17

\* analyze_pockets(project, voxel_target, recompute=True) after _load_points
AnalyzeCall(settings, xyz, voxel_target) ==
    [ phase |-> "loaded", settings |-> settings, xyz |-> xyz,
      voxel_target |-> voxel_target,
      bounds_low |-> <<0, 0, 0>>, bounds_high |-> <<0, 0, 0>>, voxel_size |-> <<0, 1>>,
      built |-> NoGrid, grid |-> NoGrid, labeled |-> <<>>, num_pockets |-> 0,
      analysis |-> NoAnalysis, error |-> "" ]

AnalyzeCalls ==
    { AnalyzeCall(Dilated(DefaultSettings, d), xyz, t) :
        d \in 0..1, xyz \in BlockClouds \cup CornerClouds, t \in VoxelTargets }
    \cup { AnalyzeCall(FixtureSettings, CubeShellCloud, t) : t \in CubeTargets }

InitAnalyze ==
    /\ InitStores
    /\ vox = NoVox
    /\ bg = NoCall
    /\ ex = NoCall
    /\ an \in AnalyzeCalls

\* analyze_pockets, lines 230-235: the bounds and the voxel size
AnalyzeBounds ==
    /\ an.phase = "loaded"
    /\ LET bounds_low == BoundsLow(an.xyz)
           bounds_high == BoundsHigh(an.xyz)
       IN  an' = [ an EXCEPT
                     !.phase = "sized",
                     !.bounds_low = bounds_low,
                     !.bounds_high = bounds_high,
                     !.voxel_size = ComputeVoxelResolutionWith(an.settings, bounds_low,
                                                               bounds_high, an.voxel_target) ]
    /\ UNCHANGED <<cacheVars, gridVars, octVars, vox, bg, ex>>

\* analyze_pockets, line 238: _build_occupancy_grid with the default
\* dilation; indexing an axis of length 0 raises IndexError
AnalyzeBuildGrid ==
    /\ an.phase = "sized"
    /\ IF IndexErrorShape(GridResolutionWith(an.settings, an.bounds_low, an.bounds_high,
                                             an.voxel_size))
       THEN an' = [ an EXCEPT !.phase = "raised", !.error = "IndexError" ]
       ELSE LET built == BuildOccupancyGridWith(an.settings, an.xyz, an.bounds_low,
                                                an.bounds_high, an.voxel_size,
                                                an.settings.pocket_occupancy_dilation)
            IN  an' = [ an EXCEPT !.phase = "built", !.built = built, !.grid = built ]
    /\ UNCHANGED <<cacheVars, gridVars, octVars, vox, bg, ex>>

\* analyze_pockets, line 241
AnalyzeFloodFill ==
    /\ an.phase = "built"
    /\ an' = [ an EXCEPT !.phase = "filled", !.grid = FloodFillOutside(an.grid) ]
    /\ UNCHANGED <<cacheVars, gridVars, octVars, vox, bg, ex>>

\* analyze_pockets, line 244
AnalyzeLabel ==
    /\ an.phase = "filled"
    /\ LET l == LabelPockets(an.grid)
       IN  an' = [ an EXCEPT !.phase = "labeled", !.labeled = l.labeled,
                             !.num_pockets = l.num_features ]
    /\ UNCHANGED <<cacheVars, gridVars, octVars, vox, bg, ex>>

\* analyze_pockets, lines 246-276: the pocket list, the grid statistics and
\* the PocketAnalysis (computed_at is left at 1)
AnalyzeAssemble ==
    /\ an.phase = "labeled"
    /\ LET pockets == SignificantPocketsWith(an.settings, an.labeled, an.grid.res, 1,
                                             an.num_pockets, an.voxel_size, an.bounds_low)
       IN  an' = [ an EXCEPT
                     !.phase = "returned",
                     !.analysis =
                        [ grid_metadata |->
                            [ resolution |-> an.grid.res,
                              voxel_size |-> an.voxel_size,
                              bounds_low |-> an.bounds_low,
                              bounds_high |-> an.bounds_high,
                              occupied_count |-> Cardinality(WithState(an.grid, OCCUPIED)),
                              empty_count |-> Cardinality(WithState(an.grid, EMPTY)),
                              outside_count |-> Cardinality(WithState(an.grid, OUTSIDE)),
                              pocket_count |-> Len(pockets) ],
                          pockets |-> pockets,
                          computed_at |-> 1 ] ]
    /\ UNCHANGED <<cacheVars, gridVars, octVars, vox, bg, ex>>

NextAnalyze ==
    \/ AnalyzeBounds
    \/ AnalyzeBuildGrid
    \/ AnalyzeFloodFill
    \/ AnalyzeLabel
    \/ AnalyzeAssemble

SpecAnalyze == InitAnalyze /\ [][NextAnalyze]_vars

(***************************************************************************)
(* Claims on the voxel transforms (checked under SpecGrid).                *)
(***************************************************************************)
\* two index triples are face neighbours
Adjacent6(v, w) ==
    \/ v[1] = w[1] /\ v[2] = w[2] /\ (v[3] = w[3] + 1 \/ w[3] = v[3] + 1)
    \/ v[1] = w[1] /\ v[3] = w[3] /\ (v[2] = w[2] + 1 \/ w[2] = v[2] + 1)
    \/ v[2] = w[2] /\ v[3] = w[3] /\ (v[1] = w[1] + 1 \/ w[1] = v[1] + 1)

OnOuterFace(v, res) == \E a \in Axes : v[a] = 0 \/ v[a] = res[a] - 1

\* there is a path of pairwise face-adjacent voxels of E from v to a voxel
\* of E on an outer face (v in E); the path visits no voxel twice
RECURSIVE JoinedToOuterFace(_, _, _)
JoinedToOuterFace(v, E, res) ==
    \/ OnOuterFace(v, res)
    \/ \E n \in E \ {v} : Adjacent6(v, n) /\ JoinedToOuterFace(n, E \ {v}, res)

\* there is a path of pairwise face-adjacent voxels of E from v to w
RECURSIVE Joined(_, _, _)
Joined(v, w, E) ==
    \/ v = w
    \/ \E n \in E \ {v} : Adjacent6(v, n) /\ Joined(n, w, E \ {v})

\* C9: _flood_fill_outside relabels to OUTSIDE exactly the EMPTY voxels
\* joined by a 6-connected path of EMPTY voxels to an EMPTY voxel on an
\* outer face of the grid, and every other voxel keeps its state.
C9_FloodFillExact ==
    gphase = "filled" =>
        /\ grid.res = prev.res
        /\ \A v \in Voxels(prev.res) :
             grid.cells[v] =
                IF prev.cells[v] = EMPTY /\ JoinedToOuterFace(v, WithState(prev, EMPTY), prev.res)
                THEN OUTSIDE
                ELSE prev.cells[v]

\* an enclosed EMPTY region of two voxels stayed EMPTY, another EMPTY voxel
\* became OUTSIDE, and OCCUPIED voxels stayed OCCUPIED
C9_Witness ==
    /\ gphase = "filled"
    /\ Cardinality(WithState(grid, EMPTY)) = 2
    /\ \E v \in Voxels(prev.res) : prev.cells[v] = EMPTY /\ grid.cells[v] = OUTSIDE
    /\ \E v \in Voxels(prev.res) : prev.cells[v] = OCCUPIED /\ grid.cells[v] = OCCUPIED

\* C10: _label_pockets gives label 0 to every non-EMPTY voxel and a label in
\* 1..count to every EMPTY voxel; two EMPTY voxels have the same label iff a
\* 6-connected path of EMPTY voxels joins them; the labels used are exactly
\* 1..count.
C10_LabelsAreComponents ==
    gphase = "labeled" =>
        LET E == WithState(grid, EMPTY)
        IN  /\ \A v \in Voxels(grid.res) \ E : lab.labeled[v] = 0
            /\ \A v \in E : lab.labeled[v] \in 1..lab.num_features
            /\ \A v \in E : \A w \in E : (lab.labeled[v] = lab.labeled[w]) <=> Joined(v, w, E)
            /\ { lab.labeled[v] : v \in E } = 1..lab.num_features

\* two EMPTY regions got distinct labels, one of them of several voxels, and
\* a voxel that is not EMPTY got 0
C10_Witness ==
    /\ gphase = "labeled"
    /\ lab.num_features >= 2
    /\ \E v \in Voxels(grid.res) : \E w \in Voxels(grid.res) :
         v # w /\ lab.labeled[v] = lab.labeled[w] /\ lab.labeled[v] > 0
    /\ \E v \in Voxels(grid.res) : grid.cells[v] # EMPTY /\ lab.labeled[v] = 0

(***************************************************************************)
(* Claims on the persisted cache (checked under Spec).                     *)
(***************************************************************************)
JsonCorrupt(p) == analysisFile[p].exists /\ ~JsonComplete(analysisFile[p].data)

\* what the two readers find for a project: nothing at all, or a whole
\* summary and a whole grid blob written by the same run
SeesNothing(p) == ~analysisFile[p].exists /\ ~gridFile[p].exists

SeesWholeSet(p) ==
    /\ GetCachedOutcome(p).outcome = "ok"
    /\ gridFile[p].exists
    /\ NpzComplete(gridFile[p].data)
    /\ gridFile[p].run = analysisFile[p].run

\* C1: at every moment a reader finds either a complete artifact set of one
\* run or none; never a half-written summary, never the summary of one run
\* with the grid blob of another.
C1_ReadersSeeWholeSets ==
    \A p \in Projects : SeesNothing(p) \/ SeesWholeSet(p)

\* C2: analyze(recompute=false) on a project whose cache is Computed
\* returns exactly the cached analysis, runs no pipeline and writes nothing,
\* whatever voxel_target is passed.
C2_CachedReturnedUntouched ==
    [][ \A p \in Projects : \A t \in VoxelTargets :
          (GetCachedOutcome(p).outcome = "ok" /\ AnalyzePockets(p, t, FALSE)) =>
             /\ ret'.op = "analyze"
             /\ ret'.outcome = "ok"
             /\ ret'.analysis = GetCachedOutcome(p).analysis
             /\ ~ret'.pipeline
             /\ pc' = "idle"
             /\ UNCHANGED <<points, analysisFile, gridFile, clock>> ]_vars

\* a cached analysis computed at 4 voxels per axis (one pocket) came back
\* from a call that asked for 5 voxels per axis
C2_Witness ==
    /\ ret.op = "analyze"
    /\ ~ret.recompute
    /\ ret.outcome = "ok"
    /\ ~ret.pipeline
    /\ ret.voxel_target = 5
    /\ ret.analysis.grid_metadata.resolution = <<4, 4, 4>>
    /\ Len(ret.analysis.pockets) = 1

CacheState(p) ==
    IF ~analysisFile[p].exists /\ ~gridFile[p].exists THEN "Absent"
    ELSE IF /\ analysisFile[p].exists /\ JsonComplete(analysisFile[p].data)
            /\ gridFile[p].exists /\ NpzComplete(gridFile[p].data)
         THEN "Computed"
         ELSE "Partial"

\* C4: the cache of a project is always Absent or Computed; it becomes
\* Computed from Absent only by an analyze that succeeds, and Absent only by
\* clear_cache (or the deletion of the project).
C4_CacheStateMachine ==
    [][ \A p \in Projects :
          /\ CacheState(p)' \in {"Absent", "Computed"}
          /\ (CacheState(p) = "Absent" /\ CacheState(p)' = "Computed") =>
                (ret'.op = "analyze" /\ ret'.outcome = "ok" /\ ret'.project = p)
          /\ (CacheState(p) # "Absent" /\ CacheState(p)' = "Absent") =>
                (ret'.op \in {"clear_cache", "delete"} /\ ret'.project = p) ]_vars

\* C5: when analyze(recompute=true) has ended early, no file holds anything
\* its run wrote: both readers succeed and the cache is what it was when the
\* call began.
C5_AbortCommitsNothing ==
    (pc = "idle" /\ ret.op = "analyze" /\ ret.recompute /\ ret.error = "OSError") =>
        LET p == ret.project
        IN  /\ analysisFile[p].run # ret.stamp
            /\ gridFile[p].run # ret.stamp
            /\ GetCachedOutcome(p).outcome # "error"
            /\ GetCachedOutcome(p).analysis = ret.before
            /\ \A i \in PocketIds : GetVoxelsOutcome(p, i).outcome # "error"

\* C6: a corrupt or partly written analysis.json is treated as Absent:
\* get_cached_analysis returns nothing for it, and analyze(recompute=false)
\* runs the pipeline instead of failing.
C6_CorruptTreatedAsAbsent ==
    [][ \A p \in Projects :
          JsonCorrupt(p) =>
             /\ GetCachedAnalysis(p) => ret'.outcome = "none"
             /\ \A t \in VoxelTargets :
                  AnalyzePockets(p, t, FALSE) => (ret'.pipeline \/ pc' = "save_json_open") ]_vars

C8_ConstraintExactlyForListedPocket ==
    [][ \A p \in Projects : \A i \in PocketIds : \A s \in Signs :
          CreatePocketConstraint(p, i, s) =>
             /\ UNCHANGED <<points, analysisFile, gridFile, clock>>
             /\ LET listed == IF GetCachedOutcome(p).outcome = "ok"
                              THEN { q \in 1..Len(GetCachedOutcome(p).analysis.pockets) :
                                       GetCachedOutcome(p).analysis.pockets[q].pocket_id = i }
                              ELSE {}
                IN  IF listed # {}
                    THEN /\ ret'.outcome = "ok"
                         /\ \E q \in listed :
                              LET info == GetCachedOutcome(p).analysis.pockets[q]
                              IN  /\ ret'.constraint.sign = s
                                  /\ ret'.constraint.pocket_id = i
                                  /\ ret'.constraint.voxel_count = info.voxel_count
                                  /\ ret'.constraint.centroid = info.centroid
                                  /\ ret'.constraint.bounds_low = info.bounds_low
                                  /\ ret'.constraint.bounds_high = info.bounds_high
                                  /\ ret'.constraint.volume_estimate = info.volume_estimate
                    ELSE /\ ret'.outcome = "error"
                         /\ ret'.error = "ValueError" ]_vars

\* C11: when analyze has run the pipeline and returned, a label k of the
\* persisted labeled array is in the returned pocket list iff it has at least
\* pocket_min_volume_voxels voxels; the persisted labeled array is the whole
\* labeling of the persisted grid (labels 1..count, none erased); and
\* get_pocket_voxels(k) returns the voxels of every label k in 1..count,
\* listed or not.
C11_FilterIsReportLevel ==
    (pc = "idle" /\ ret.op = "analyze" /\ ret.outcome = "ok" /\ ret.pipeline) =>
        LET p == ret.project
            pockets == ret.analysis.pockets
            saved == gridFile[p].data[2][2]
            labels == { saved[v] : v \in DOMAIN saved } \ {0}
            listed == { pockets[i].pocket_id : i \in 1..Len(pockets) }
            E == WithState(gridFile[p].data[1][2], EMPTY)
        IN  /\ NpzComplete(gridFile[p].data)
            /\ labels = 1..Cardinality(labels)
            /\ listed \subseteq labels
            /\ \A k \in labels :
                  k \in listed <=>
                     Cardinality({ v \in DOMAIN saved : saved[v] = k }) >= pocket_min_volume_voxels
            /\ \A v \in DOMAIN saved : saved[v] # 0 <=> v \in E
            /\ \A v \in E : \A w \in E : Adjacent6(v, w) => saved[v] = saved[w]
            /\ \A k \in labels :
                  /\ GetVoxelsOutcome(p, k).outcome = "ok"
                  /\ Cardinality(GetVoxelsOutcome(p, k).voxels) =
                        Cardinality({ v \in DOMAIN saved : saved[v] = k })

\* analyze returned a list holding pocket 2 only, label 1 (a single voxel)
\* was dropped from it, and get_pocket_voxels(1) still returns its voxel
C11_Witness ==
    /\ pc = "idle"
    /\ ret.op = "analyze"
    /\ ret.outcome = "ok"
    /\ ret.pipeline
    /\ Len(ret.analysis.pockets) = 1
    /\ ret.analysis.pockets[1].pocket_id = 2
    /\ GetVoxelsOutcome(ret.project, 1).outcome = "ok"
    /\ Cardinality(GetVoxelsOutcome(ret.project, 1).voxels) = 1

RatEq(a, b) == a[1] * b[2] = b[1] * a[2]
RatSub(a, b) == <<a[1] * b[2] - b[1] * a[2], a[2] * b[2]>>

\* the digit of the octant of a box into which a point falls: bit0 set iff
\* x >= mid.x, bit1 set iff y >= mid.y, bit2 set iff z >= mid.z
DigitOf(pt, low, high) ==
    LET upper(a) == IF RatLess(pt[a], Midpoint(low[a], high[a])) THEN 0 ELSE 1
    IN  upper(1) + 2 * upper(2) + 4 * upper(3)

Subdivided(n) == n.point_count > octree_node_target /\ n.level < octree_max_depth

AllFinite(xyz) == \A i \in DOMAIN xyz : \A a \in Axes : xyz[i][a][2] # 0

\* the last digit of a node id and the id without it
LastDigit(id) == id[Len(id)]
ParentId(id) == SubSeq(id, 1, Len(id) - 1)

\* C13: every row of a subdivided node is among the rows of exactly one
\* child, the child whose digit has bit0 set iff x >= mid.x, bit1 set iff
\* y >= mid.y and bit2 set iff z >= mid.z; and every position in the tile of
\* a child lies on the side of each midpoint that the child's digit encodes.
\* (Stated for uploads of finite coordinates.)
C13_EveryPointInOneChild ==
    AllFinite(oxyz) =>
        \A id \in DOMAIN nodes :
            LET n == nodes[id]
            IN  Subdivided(n) =>
                  /\ \A i \in n.indices :
                        LET c == Append(id, DigitOf(oxyz[i], n.bounds_low, n.bounds_high))
                        IN  /\ c \in DOMAIN nodes
                            /\ i \in nodes[c].indices
                            /\ \A k \in 1..Len(n.children) :
                                  n.children[k] # c => i \notin nodes[n.children[k]].indices
                  /\ \A k \in 1..Len(n.children) :
                        LET c == n.children[k]
                        IN  \A i \in DOMAIN tiles[c].positions :
                               DigitOf(tiles[c].positions[i], n.bounds_low, n.bounds_high)
                                  = LastDigit(c)

RECURSIVE SumPointCounts(_, _)
SumPointCounts(ns, children) ==
    IF children = <<>> THEN 0
    ELSE ns[Head(children)].point_count + SumPointCounts(ns, Tail(children))

LeavesAndCounts(ns) ==
    \A id \in DOMAIN ns :
        LET n == ns[id]
        IN  /\ n.level \in 0..octree_max_depth
            /\ (n.point_count <= octree_node_target \/ n.level = octree_max_depth) =>
                    n.children = <<>>
            /\ \A k \in 1..Len(n.children) : n.children[k] \in DOMAIN ns
            /\ SumPointCounts(ns, n.children) <= n.point_count

\* C14: in the dict of a build and in the persisted metadata, a node with
\* point_count <= target or level = max_depth has no children, no node (and
\* no call in progress) has a level above max_depth, and the point_counts of
\* a node's children sum to at most the node's point_count.
C14_LeavesAndChildCounts ==
    /\ LeavesAndCounts(nodes)
    /\ octreeMetadata.exists => LeavesAndCounts(octreeMetadata.nodes)
    /\ \A k \in 1..Len(stack) : stack[k].level <= octree_max_depth
    /\ Len(stack) <= octree_max_depth + 1

\* a finished build with a leaf forced at max_depth that holds more rows
\* than the target, under a root whose children hold fewer rows than it
C14_Witness ==
    /\ opc = "idle"
    /\ octreeMetadata.exists
    /\ \E id \in DOMAIN octreeMetadata.nodes :
          /\ octreeMetadata.nodes[id].level = octree_max_depth
          /\ octreeMetadata.nodes[id].point_count > octree_node_target
          /\ octreeMetadata.nodes[id].children = <<>>
    /\ SumPointCounts(octreeMetadata.nodes, octreeMetadata.nodes[RootId].children)
          < octreeMetadata.nodes[RootId].point_count

\* the grid coordinate, at the level of node n, of the cell of the root box
\* whose low corner is the low corner of n's box (axis a); -1 if n's box is
\* not such a cell
GridCoord(n, root, a) ==
    LET offset == RatSub(n.bounds_low[a], root.bounds_low[a])
        extent == RatSub(root.bounds_high[a], root.bounds_low[a])
        num == offset[1] * extent[2] * (2 ^ n.level)
        den == offset[2] * extent[1]
    IN  IF den # 0 /\ num % den = 0 THEN num \div den ELSE -1

\* C15: for every node of the persisted metadata below the root, the lookup
\* for the node's level and the grid coordinates of the cell its box covers
\* gives the node's id; level 0 gives the root id for any coordinates; and a
\* tile returned by get_tile is the tile of the node covering the cell asked
\* for.
C15_LookupInvertsSubdivision ==
    /\ \A x \in 0..3 : \A y \in 0..3 : \A z \in 0..3 : CoordsToNodeId(0, x, y, z) = RootId
    /\ (opc = "idle" /\ octreeMetadata.exists) =>
          LET ns == octreeMetadata.nodes
              root == ns[octreeMetadata.root_id]
          IN  /\ \A id \in DOMAIN ns :
                    ns[id].level >= 1 =>
                       CoordsToNodeId(ns[id].level, GridCoord(ns[id], root, 1),
                                      GridCoord(ns[id], root, 2), GridCoord(ns[id], root, 3)) = id
              /\ (oret.op = "get_tile" /\ oret.outcome = "ok") =>
                    /\ oret.node_id \in DOMAIN ns
                    /\ ns[oret.node_id].level = oret.level
                    /\ oret.level >= 1 =>
                          /\ GridCoord(ns[oret.node_id], root, 1) = oret.x
                          /\ GridCoord(ns[oret.node_id], root, 2) = oret.y
                          /\ GridCoord(ns[oret.node_id], root, 3) = oret.z

\* get_tile returned the tile of a node of level 2 whose grid coordinates
\* differ on the axes, in an octree that has another node of level 2
C15_Witness ==
    /\ oret.op = "get_tile"
    /\ oret.outcome = "ok"
    /\ oret.level = 2
    /\ oret.x # oret.z
    /\ oret.node_id \in DOMAIN octreeMetadata.nodes
    /\ \E id \in DOMAIN octreeMetadata.nodes :
          /\ octreeMetadata.nodes[id].level = 2
          /\ LastDigit(id) \notin {0, LastDigit(oret.node_id)}

OctantsOfParent(ns) ==
    \A id \in DOMAIN ns :
        LET n == ns[id]
        IN  /\ n.node_id = id
            /\ Len(n.children) \in 0..8
            /\ \A j \in 1..Len(n.children) : \A k \in 1..Len(n.children) :
                  j # k => n.children[j] # n.children[k]
            /\ id # RootId => n.point_count > 0
            /\ \A k \in 1..Len(n.children) :
                  LET c == n.children[k]
                  IN  /\ c \in DOMAIN ns
                      /\ Len(c) = Len(id) + 1
                      /\ ParentId(c) = id
                      /\ LastDigit(c) \in 0..7
                      /\ ns[c].level = n.level + 1
                      /\ \A a \in Axes :
                            LET mid == Midpoint(n.bounds_low[a], n.bounds_high[a])
                            IN  IF Bit(LastDigit(c), a - 1) = 1
                                THEN /\ RatEq(ns[c].bounds_low[a], mid)
                                     /\ RatEq(ns[c].bounds_high[a], n.bounds_high[a])
                                ELSE /\ RatEq(ns[c].bounds_low[a], n.bounds_low[a])
                                     /\ RatEq(ns[c].bounds_high[a], mid)

\* C16: in the dict of a build and in the persisted metadata, every child's
\* box is the octant of its parent's box that its digit selects, its id is
\* the parent's id with the digit appended, its level the parent's plus one;
\* a node has 0 to 8 children; only the root can have point_count 0; in the
\* persisted metadata every node but the root is a child of its parent.
C16_ChildrenAreOctants ==
    /\ OctantsOfParent(nodes)
    /\ octreeMetadata.exists =>
          /\ OctantsOfParent(octreeMetadata.nodes)
          /\ \A id \in DOMAIN octreeMetadata.nodes :
                id # RootId =>
                   /\ ParentId(id) \in DOMAIN octreeMetadata.nodes
                   /\ \E k \in 1..Len(octreeMetadata.nodes[ParentId(id)].children) :
                         octreeMetadata.nodes[ParentId(id)].children[k] = id

\* a finished build with a node that has several children (not all eight),
\* one of them at level 2 in an upper half
C16_Witness ==
    /\ opc = "idle"
    /\ octreeMetadata.exists
    /\ \E id \in DOMAIN octreeMetadata.nodes :
          /\ Len(octreeMetadata.nodes[id].children) \in 2..7
          /\ \E k \in 1..Len(octreeMetadata.nodes[id].children) :
                LET c == octreeMetadata.nodes[id].children[k]
                IN  octreeMetadata.nodes[c].level = 2 /\ LastDigit(c) # 0

\* C17: an upload of zero points succeeds and leaves metadata whose only
\* node is the root with point_count 0 and no children, and no tile of the
\* root.
C17_ZeroPointsRootOnly ==
    (opc = "idle" /\ oret.op = "upload_and_process" /\ Len(oret.xyz) = 0) =>
        /\ oret.outcome = "ok"
        /\ octreeMetadata.exists
        /\ DOMAIN octreeMetadata.nodes = {RootId}
        /\ octreeMetadata.nodes[RootId].point_count = 0
        /\ octreeMetadata.nodes[RootId].children = <<>>
        /\ RootId \notin DOMAIN tiles

\* C18: an upload with a non-finite coordinate ends in an error and nothing
\* of it is persisted: neither points.npz, nor a tile, nor the metadata is
\* of that upload.
C18_NonFiniteAbortsCleanly ==
    (opc = "idle" /\ oret.op = "upload_and_process" /\ ~AllFinite(oret.xyz)) =>
        /\ oret.outcome = "error"
        /\ pointsFile.upload # oret.upload
        /\ \A id \in DOMAIN tiles : tiles[id].upload # oret.upload
        /\ octreeMetadata.exists => octreeMetadata.upload # oret.upload

\* C22: the tile of a leaf (point_count <= target or level = max_depth)
\* holds exactly the rows of the node, each under its own index with its
\* coordinates; the tile of any other node holds exactly
\* min(target \div 2, point_count) rows, all of them rows of the node; a node
\* has a tile iff it has points.
C22_TileHoldsNodePoints ==
    \A id \in DOMAIN nodes :
        LET n == nodes[id]
        IN  /\ id \in DOMAIN tiles <=> n.point_count > 0
            /\ n.point_count = Cardinality(n.indices)
            /\ id \in DOMAIN tiles =>
                  LET t == tiles[id].positions
                  IN  /\ \A i \in DOMAIN t : t[i] = oxyz[i]
                      /\ IF n.point_count <= octree_node_target \/ n.level = octree_max_depth
                         THEN DOMAIN t = n.indices
                         ELSE /\ DOMAIN t \subseteq n.indices
                              /\ Cardinality(DOMAIN t) =
                                    Min2(octree_node_target \div 2, n.point_count)

\* a finished build whose root (four rows) has a tile of one row, and which
\* has a leaf at max_depth whose tile holds all of its three rows
C22_Witness ==
    /\ opc = "idle"
    /\ octreeMetadata.exists
    /\ nodes[RootId].point_count = 4
    /\ Cardinality(DOMAIN tiles[RootId].positions) = 1
    /\ \E id \in DOMAIN nodes :
          /\ nodes[id].level = octree_max_depth
          /\ nodes[id].point_count = 3
          /\ Cardinality(DOMAIN tiles[id].positions) = 3

(***************************************************************************)
(* Claims on rebuilt octrees (checked under SpecRebuild).                  *)
(***************************************************************************)
\* the current metadata lists the node with point_count > 0
ListedWithPoints(node_id) ==
    /\ octreeMetadata.exists
    /\ node_id \in DOMAIN octreeMetadata.nodes
    /\ octreeMetadata.nodes[node_id].point_count > 0

\* C27: between uploads the tile store agrees with the current metadata:
\* get_tile finds a tile for a node id exactly if the metadata lists the
\* node with point_count > 0, the tile it finds was written by the build
\* that wrote the metadata, and so was every tile a get_tile has returned.
C27_TilesAgreeWithMetadata ==
    opc = "idle" =>
        /\ \A level \in TileLevels :
             \A x \in TileCoords(level), y \in TileCoords(level), z \in TileCoords(level) :
                LET node_id == CoordsToNodeId(level, x, y, z)
                IN  /\ node_id \in DOMAIN tiles <=> ListedWithPoints(node_id)
                    /\ node_id \in DOMAIN tiles =>
                          tiles[node_id].upload = octreeMetadata.upload
        /\ (oret.op = "get_tile" /\ oret.outcome = "ok") =>
              /\ ListedWithPoints(oret.node_id)
              /\ oret.point_count <= octreeMetadata.nodes[oret.node_id].point_count

(***************************************************************************)
(* Claims on the voxel size and the grid resolution.                       *)
(***************************************************************************)
\* the fields VoxelGridMetadata and PocketAnalysis are known to describe
GridFields ==
    { "resolution", "voxel_size", "bounds_low", "bounds_high",
      "occupied_count", "empty_count", "outside_count", "pocket_count" }
AnalysisFields == { "grid_metadata", "pockets", "computed_at" }

\* ceil(extent / voxel_size) exceeds the cap on some axis
RequestExceedsCap(bounds_low, bounds_high, voxel_size) ==
    \E a \in Axes :
        (bounds_high[a] - bounds_low[a]) * voxel_size[2]
            > pocket_max_voxels_per_axis * voxel_size[1]

\* the analysis carries something, besides the grid description itself,
\* that tells a reader the resolution was clamped
ClampingRecorded(analysis) ==
    \/ (DOMAIN analysis) \ AnalysisFields # {}
    \/ (DOMAIN analysis.grid_metadata) \ GridFields # {}

\* C19: an analyze whose requested resolution exceeds
\* pocket_max_voxels_per_axis does not fail in the pipeline; the analysis it
\* returns has at most the cap on every axis of the resolution and records
\* that clamping occurred.
C19_ClampedAndRecorded ==
    (pc = "idle" /\ ret.op = "analyze" /\ ret.pipeline /\ ret.error # "OSError") =>
        LET xyz == points[ret.project]
            low == BoundsLow(xyz)
            high == BoundsHigh(xyz)
        IN  RequestExceedsCap(low, high, ComputeVoxelResolution(low, high, ret.voxel_target)) =>
               /\ ret.outcome = "ok"
               /\ \A a \in Axes :
                     ret.analysis.grid_metadata.resolution[a] <= pocket_max_voxels_per_axis
               /\ ClampingRecorded(ret.analysis)

\* C20: compute_voxel_resolution returns max(longest extent / target,
\* pocket_min_voxel_size), the target being pocket_voxel_target when none is
\* passed; for a box with low = high it returns pocket_min_voxel_size.
C20_VoxelSizeFormula ==
    vox.phase = "returned" =>
        LET target == IF vox.target_voxels = 0 THEN pocket_voxel_target ELSE vox.target_voxels
            extents == { vox.bounds_high[a] - vox.bounds_low[a] : a \in Axes }
            longest == CHOOSE e \in extents : \A f \in extents : f <= e
            quotient == <<longest, target>>
            r == vox.voxel_size
        IN  /\ r[2] > 0
            /\ ~RatLess(r, quotient)
            /\ ~RatLess(r, pocket_min_voxel_size)
            /\ RatEq(r, quotient) \/ RatEq(r, pocket_min_voxel_size)
            /\ vox.bounds_low = vox.bounds_high => RatEq(r, pocket_min_voxel_size)

\* the call returned pocket_min_voxel_size for a box with low = high, with
\* an explicit target
C20_Witness ==
    /\ vox.phase = "returned"
    /\ vox.bounds_low = vox.bounds_high
    /\ vox.target_voxels = 3
    /\ vox.voxel_size = pocket_min_voxel_size

(***************************************************************************)
(* Claims on the occupancy grid (checked under SpecBuildGrid).             *)
(***************************************************************************)
\* c is min(ceil(extent / voxel_size), cap), said without computing a ceiling:
\* below the cap, c is the least integer with c * voxel_size >= extent
IsCappedCeiling(c, extent, voxel_size, cap) ==
    /\ c <= cap
    /\ (c - 1) * voxel_size[1] < extent * voxel_size[2]
    /\ c < cap => c * voxel_size[1] >= extent * voxel_size[2]

\* the coordinate x (relative to the low bound) bins to index i on an axis of
\* n voxels: i is floor(x / voxel_size), or the end of the range beyond
\* which that floor lies
BinsTo(x, i, n, voxel_size) ==
    \/ i * voxel_size[1] <= x * voxel_size[2] /\ x * voxel_size[2] < (i + 1) * voxel_size[1]
    \/ i = 0 /\ x < 0
    \/ i = n - 1 /\ x * voxel_size[2] >= n * voxel_size[1]

Manhattan(v, w) ==
    LET abs(k) == IF k < 0 THEN -k ELSE k
    IN  abs(v[1] - w[1]) + abs(v[2] - w[2]) + abs(v[3] - w[3])

\* C23: the grid returned for dilation 0 has on each axis the resolution
\* min(ceil(extent / voxel_size), cap); a voxel is OCCUPIED iff at least one
\* point bins to it (floor((point - low) / voxel_size) clamped into
\* 0..resolution-1 per axis), and every other voxel is EMPTY.
C23_GridIsBinnedPoints ==
    bg.phase \in {"plain", "dilated"} =>
        LET g == bg.grid_no_dilation
        IN  /\ \A a \in Axes :
                  IsCappedCeiling(g.res[a], bg.bounds_high[a] - bg.bounds_low[a],
                                  bg.voxel_size, pocket_max_voxels_per_axis)
            /\ DOMAIN g.cells = Voxels(g.res)
            /\ \A v \in Voxels(g.res) :
                  IF \E pt \in bg.xyz :
                        \A a \in Axes :
                           BinsTo(pt[a] - bg.bounds_low[a], v[a], g.res[a], bg.voxel_size)
                  THEN g.cells[v] = OCCUPIED
                  ELSE g.cells[v] = EMPTY

\* a grid clamped to the cap on the z axis, with a point beyond the last
\* voxel binned into it, a point below the low bound of the x axis binned
\* into voxel 0, and EMPTY voxels left
C23_Witness ==
    /\ bg.phase = "plain"
    /\ bg.grid_no_dilation.res[3] = pocket_max_voxels_per_axis
    /\ (bg.bounds_high[3] - bg.bounds_low[3]) * bg.voxel_size[2]
          > pocket_max_voxels_per_axis * bg.voxel_size[1]
    /\ \E pt \in bg.xyz :
          (pt[3] - bg.bounds_low[3]) * bg.voxel_size[2]
              >= pocket_max_voxels_per_axis * bg.voxel_size[1]
    /\ \E pt \in bg.xyz : pt[1] < bg.bounds_low[1]
    /\ Cardinality(WithState(bg.grid_no_dilation, OCCUPIED)) = 2
    /\ WithState(bg.grid_no_dilation, EMPTY) # {}

\* C24: the grid returned for dilation r > 0 has the shape of the grid for
\* dilation 0; its OCCUPIED voxels are exactly the voxels within r
\* 6-connected steps of a voxel OCCUPIED at dilation 0 (so a superset of
\* them), and every other voxel is EMPTY.
C24_DilationGrowsBySteps ==
    bg.phase = "dilated" =>
        LET g0 == bg.grid_no_dilation
            g == bg.grid_with_dilation
            occupied0 == WithState(g0, OCCUPIED)
        IN  /\ g.res = g0.res
            /\ DOMAIN g.cells = Voxels(g0.res)
            /\ \A v \in occupied0 : g.cells[v] = OCCUPIED
            /\ \A v \in Voxels(g0.res) :
                  IF \E w \in occupied0 : Manhattan(v, w) <= bg.dilation
                  THEN g.cells[v] = OCCUPIED
                  ELSE g.cells[v] = EMPTY

\* two steps of dilation around a voxel on the border of the grid: the
\* region grew, it holds a voxel two steps away, and EMPTY voxels are left
C24_Witness ==
    /\ bg.phase = "dilated"
    /\ bg.dilation = 2
    /\ \A a \in Axes : bg.grid_no_dilation.res[a] >= 3
    /\ Cardinality(WithState(bg.grid_no_dilation, OCCUPIED)) = 1
    /\ <<0, 0, 0>> \in WithState(bg.grid_no_dilation, OCCUPIED)
    /\ bg.grid_with_dilation.cells[<<1, 1, 0>>] = OCCUPIED
    /\ bg.grid_with_dilation.cells[<<1, 1, 1>>] = EMPTY
    /\ Cardinality(WithState(bg.grid_with_dilation, OCCUPIED)) > 1

(***************************************************************************)
(* Claims on the cache across point-cloud stores (checked under Spec).     *)
(***************************************************************************)
\* analysis is what analyze_pockets computes from the cloud xyz, at some
\* voxel_target and some time of the run
DescribesCloud(analysis, xyz) ==
    /\ xyz # NoCloud
    /\ \E t \in VoxelTargets, now \in 1..MaxClock :
          /\ ~PipelineRaises(xyz, t)
          /\ analysis = RunPipeline(xyz, t, now).analysis

\* C26: the analysis that analyze_pockets(recompute=False) returns describes
\* the point cloud stored for the project at that moment; a cached analysis
\* of a point cloud that has since been replaced is never returned.
C26_AnalysisDescribesStoredCloud ==
    (pc = "idle" /\ ret.op = "analyze" /\ ret.outcome = "ok" /\ ~ret.recompute)
        => DescribesCloud(ret.analysis, points[ret.project])

\* C30: get_cached_analysis and get_pocket_voxels change nothing in the
\* persisted store: the set of project directories, the point clouds and
\* the cache files are the same after the read as before it, so a project
\* that did not exist before the read does not exist after it.
C30_ReadsChangeNothing ==
    [][ \A p \in Projects :
          (GetCachedAnalysis(p) \/ \E i \in PocketIds : GetPocketVoxels(p, i))
              => UNCHANGED <<projectDir, points, analysisFile, gridFile>> ]_vars

(***************************************************************************)
(* Claims on the pocket metadata (checked under SpecExtract).              *)
(***************************************************************************)
\* the sum, over the voxels of V, of twice the world coordinate a of the
\* voxel centre, as a numerator over the denominator of voxel_size
RECURSIVE SumOfCentres(_, _, _, _)
SumOfCentres(V, a, voxel_size, origin) ==
    IF V = {} THEN 0
    ELSE LET v == CHOOSE x \in V : TRUE
         IN  (2 * v[a] + 1) * voxel_size[1] + 2 * origin[a] * voxel_size[2]
                + SumOfCentres(V \ {v}, a, voxel_size, origin)

\* C25: for a label that occurs, _extract_pocket_info returns the number of
\* voxels with the label, the mean of their centres (index + 1/2) x
\* voxel_size + origin, the box from min index x voxel_size + origin to
\* (max index + 1) x voxel_size + origin, the volume voxel_count x
\* voxel_size^3 and is_toggled_solid false; for a label that does not occur
\* it raises an error and returns nothing.
C25_PocketInfoFields ==
    ex.phase \in {"returned", "raised"} =>
        LET V == { v \in DOMAIN ex.labeled : ex.labeled[v] = ex.pocket_id }
            n == Cardinality(V)
            vs == ex.voxel_size
        IN  IF V = {}
            THEN ex.phase = "raised" /\ ex.error = "ValueError" /\ ex.info = NoAnalysis
            ELSE /\ ex.phase = "returned"
                 /\ ex.info.pocket_id = ex.pocket_id
                 /\ ex.info.voxel_count = n
                 /\ ex.info.is_toggled_solid = FALSE
                 /\ RatEq(ex.info.volume_estimate,
                          <<n * vs[1] * vs[1] * vs[1], vs[2] * vs[2] * vs[2]>>)
                 /\ \A a \in Axes :
                       /\ RatEq(ex.info.centroid[a],
                                <<SumOfCentres(V, a, vs, ex.bounds_low), 2 * vs[2] * n>>)
                       /\ \E lo \in V : \E hi \in V :
                             /\ \A w \in V : lo[a] <= w[a] /\ w[a] <= hi[a]
                             /\ RatEq(ex.info.bounds_low[a],
                                      <<lo[a] * vs[1] + ex.bounds_low[a] * vs[2], vs[2]>>)
                             /\ RatEq(ex.info.bounds_high[a],
                                      <<(hi[a] + 1) * vs[1] + ex.bounds_low[a] * vs[2], vs[2]>>)

\* the metadata of a label of two voxels that differ in x, in an array that
\* holds another label, with an origin away from zero
C25_Witness ==
    /\ ex.phase = "returned"
    /\ ex.pocket_id = 2
    /\ ex.info.voxel_count = 2
    /\ \E v \in DOMAIN ex.labeled : ex.labeled[v] = 1
    /\ ex.bounds_low = <<1, -2, 3>>
    /\ ex.voxel_size = <<3, 2>>
    /\ RatLess(<<3, 2>>, RatSub(ex.info.bounds_high[1], ex.info.bounds_low[1]))

(***************************************************************************)
(* Claims on the analysis pipeline (checked under SpecAnalyze).            *)
(***************************************************************************)
RatAbsDiff(a, b) ==
    IF RatLess(a, b) THEN <<b[1] * a[2] - a[1] * b[2], a[2] * b[2]>>
    ELSE <<a[1] * b[2] - b[1] * a[2], a[2] * b[2]>>

\* a is within 20% of b (b >= 0): 5 |a - b| <= b
Within20Percent(a, b) ==
    LET d == RatAbsDiff(a, b) IN ~RatLess(b, <<5 * d[1], d[2]>>)

\* the call analyzed the hollow cube shell under the fixture's settings
HollowCubeReturned ==
    /\ an.phase = "returned"
    /\ an.settings = FixtureSettings
    /\ an.xyz = CubeShellCloud

\* C21 as stated: the hollow cube shell at about 16 voxels per axis with
\* dilation 2 gives exactly one pocket, and its volume_estimate is within
\* 20% of the true interior volume of the cube (CubeSide^3).
C21_VolumeNearTrueInterior ==
    HollowCubeReturned =>
        /\ Len(an.analysis.pockets) = 1
        /\ Within20Percent(an.analysis.pockets[1].volume_estimate,
                           <<CubeSide * CubeSide * CubeSide, 1>>)

\* C21 as amended: exactly one pocket, and its volume_estimate is within 20%
\* of the volume of the interior that is left after dilation: the cube
\* shrunk by dilation + 1 voxels on each side.
C21_VolumeNearDilatedInterior ==
    HollowCubeReturned =>
        LET md == an.analysis.grid_metadata
            side == md.resolution[1] - 2 * (an.settings.pocket_occupancy_dilation + 1)
            vs == md.voxel_size
            \* both volumes over the denominator of voxel_size^3
            left == side * side * side * vs[1] * vs[1] * vs[1]
            den == vs[2] * vs[2] * vs[2]
        IN  /\ Len(an.analysis.pockets) = 1
            /\ LET volume == an.analysis.pockets[1].volume_estimate
                   diff == IF volume[1] < left THEN left - volume[1] ELSE volume[1] - left
               IN  /\ side > 0
                   /\ volume[2] = den
                   /\ 5 * diff <= left

\* at 16 voxels per axis the one pocket has 10 x 10 x 10 voxels
C21_Witness ==
    /\ HollowCubeReturned
    /\ an.voxel_target = 16
    /\ an.analysis.grid_metadata.resolution = <<16, 16, 16>>
    /\ Len(an.analysis.pockets) = 1
    /\ an.analysis.pockets[1].voxel_count = 1000

\* C28: for every non-empty point cloud, zero extent on an axis included,
\* analyze_pockets raises no indexing error, the grid built has at least one
\* voxel on every axis, and every point of the cloud bins to a voxel inside
\* the grid that is OCCUPIED.
C28_ZeroExtentCloudsAnalyzed ==
    /\ an.phase # "raised"
    /\ an.phase \in {"built", "filled", "labeled", "returned"} =>
          /\ \A a \in Axes : an.built.res[a] >= 1
          /\ \A pt \in an.xyz :
                \E v \in Voxels(an.built.res) :
                   /\ \A a \in Axes :
                         BinsTo(pt[a] - an.bounds_low[a], v[a], an.built.res[a],
                                an.voxel_size)
                   /\ an.built.cells[v] = OCCUPIED

\* the sum of the voxel_counts of a pocket list
RECURSIVE SumVoxelCounts(_)
SumVoxelCounts(pockets) ==
    IF pockets = <<>> THEN 0
    ELSE Head(pockets).voxel_count + SumVoxelCounts(Tail(pockets))

\* C29: in a returned analysis every voxel of the grid handed to
\* _save_analysis is EMPTY, OCCUPIED or OUTSIDE, the three counts add up to
\* the product of the resolution, empty_count is the number of voxels with a
\* nonzero label, pocket_count is the length of the pocket list, and the
\* pockets have positive ids in strictly increasing order whose voxel_counts
\* sum to at most empty_count.
C29_StatisticsPartitionGrid ==
    an.phase = "returned" =>
        LET m == an.analysis.grid_metadata
            pockets == an.analysis.pockets
        IN  /\ \A v \in Voxels(m.resolution) : an.grid.cells[v] \in {EMPTY, OCCUPIED, OUTSIDE}
            /\ m.occupied_count + m.empty_count + m.outside_count
                  = m.resolution[1] * m.resolution[2] * m.resolution[3]
            /\ m.empty_count = Cardinality({ v \in DOMAIN an.labeled : an.labeled[v] # 0 })
            /\ m.pocket_count = Len(pockets)
            /\ \A i \in 1..Len(pockets) : pockets[i].pocket_id >= 1
            /\ \A i \in 1..Len(pockets) : \A j \in 1..Len(pockets) :
                  i < j => pockets[i].pocket_id < pockets[j].pocket_id
            /\ SumVoxelCounts(pockets) <= m.empty_count

\* an analysis with OUTSIDE voxels, a pocket below the minimum volume that
\* is left out of the list, and a listed pocket whose id is not its position
C29_Witness ==
    /\ an.phase = "returned"
    /\ an.analysis.grid_metadata.outside_count >= 1
    /\ an.analysis.grid_metadata.occupied_count >= 1
    /\ an.analysis.grid_metadata.pocket_count >= 1
    /\ an.analysis.pockets[1].pocket_id >= 2
    /\ SumVoxelCounts(an.analysis.pockets) < an.analysis.grid_metadata.empty_count

=============================================================================
